---- MODULE Spec2Model ----
(***************************************************************************)
(* The natural-language GitHub front end: the intent resolver (both the    *)
(* eight-intent and the three-intent version) and the GitHub REST adapter  *)
(* (both versions of class GitHubAPI).                                     *)
(*                                                                         *)
(* Texts are sequences of one-character strings.  Every regular expression *)
(* of the source is written down as a syntax tree and run by one           *)
(* backtracking matcher with JavaScript's leftmost, greedy semantics.      *)
(***************************************************************************)
EXTENDS Integers, Sequences, FiniteSets, TLC

VARIABLES
  text,               \* resolver: the `input` field of the call
  fallback_per_page,  \* resolver: the `fallback_per_page` field ("absent" when left out)
  intent,             \* result of the eight-intent resolveGitHubIntent ("pending" before)
  intent3,            \* result of the three-intent resolveGitHubIntent ("pending" before)
  dispatch,           \* what the resolveGitHubIntent tool of tambo.ts did ("none" before)
  api,                \* adapter: which class GitHubAPI of github-api.ts is deployed (1 or 2)
  token,              \* adapter: this.token is set
  op,                 \* adapter: the operation in progress
  args,               \* adapter: its arguments
  pc,                 \* adapter: "idle", "await1" (first fetch pending), "await2" (retry fetch pending), "done"
  sent,               \* adapter: the requests sent by the call so far
  received,           \* adapter: what the fetches of the call settled with, in order
  page1,              \* adapter: what the first pass of getRepositoryIssues kept
  outcome,            \* adapter: how the call ended ("none" before)
  tool,               \* tools: the tool callable in progress ("none" before)
  reads,              \* tools: the adapter operations the tool calls: status, response, outcome
  order,              \* tools: the reads in the order they settled
  result              \* tools: how the tool ended ("none" before)

resolverVars == <<text, fallback_per_page, intent, intent3, dispatch>>
adapterVars == <<api, token, op, args, pc, sent, received, page1, outcome>>
toolVars == <<tool, reads, order, result>>
vars == <<text, fallback_per_page, intent, intent3, dispatch, api, token, op, args, pc, sent, received, page1,
          outcome, tool, reads, order, result>>

(***************************************************************************)
(* Characters                                                              *)
(***************************************************************************)
Digits == <<"0", "1", "2", "3", "4", "5", "6", "7", "8", "9">>
Lowers == <<"a", "b", "c", "d", "e", "f", "g", "h", "i", "j", "k", "l", "m",
            "n", "o", "p", "q", "r", "s", "t", "u", "v", "w", "x", "y", "z">>
Uppers == <<"A", "B", "C", "D", "E", "F", "G", "H", "I", "J", "K", "L", "M",
            "N", "O", "P", "Q", "R", "S", "T", "U", "V", "W", "X", "Y", "Z">>

Range(f) == {f[i] : i \in DOMAIN f}

DigitCh == Range(Digits)                       \* \d
LowerCh == Range(Lowers)                       \* a-z
UpperCh == Range(Uppers)                       \* A-Z
WordCh == DigitCh \cup LowerCh \cup UpperCh \cup {"_"}   \* \w
SpaceCh == {" "}                               \* \s (the texts hold no other white space)
OtherCh == {"-", ".", "/", ":", "#", "+", "?", ">", "'"}
AnyCh == WordCh \cup SpaceCh \cup OtherCh      \* .

\* String.prototype.toLowerCase, one character
LowerOf(c) == IF c \in UpperCh THEN Lowers[CHOOSE i \in 1..26 : Uppers[i] = c] ELSE c

toLowerCase(s) == [i \in 1..Len(s) |-> LowerOf(s[i])]

\* String.prototype.trim
RECURSIVE TrimLeft(_)
TrimLeft(s) == IF s # <<>> /\ Head(s) \in SpaceCh THEN TrimLeft(Tail(s)) ELSE s

RECURSIVE TrimRight(_)
TrimRight(s) ==
  IF s # <<>> /\ s[Len(s)] \in SpaceCh THEN TrimRight(SubSeq(s, 1, Len(s) - 1)) ELSE s

trim(s) == TrimRight(TrimLeft(s))

\* String.prototype.includes
includes(s, w) == \E i \in 1..(Len(s) - Len(w) + 1) : SubSeq(s, i, i + Len(w) - 1) = w

DigitVal(c) == (CHOOSE i \in 1..10 : Digits[i] = c) - 1

NaN == -1              \* parseInt's NaN (no capture holds a sign, so no real result is negative)

\* parseInt(s, 10); NaN when s does not start with a digit
RECURSIVE ParseDigits(_, _)
ParseDigits(s, acc) ==
  IF s = <<>> \/ Head(s) \notin DigitCh THEN acc
  ELSE ParseDigits(Tail(s), 10 * acc + DigitVal(Head(s)))

parseInt(s) == IF s = <<>> \/ Head(s) \notin DigitCh THEN NaN ELSE ParseDigits(s, 0)

(***************************************************************************)
(* Regular expressions.  A node is one of                                  *)
(*   Wb                \b                                                  *)
(*   Str(w)            the literal w                                       *)
(*   Rep(cls, lo, hi)  a greedy run of lo..hi characters of the class cls  *)
(*   Opt(x)            x?                                                  *)
(*   Alt(<<x, ...>>)   x|...                                               *)
(*   Cat(<<x, ...>>)   x...                                                *)
(* and a regular expression is [ci, parts]: the /i flag and the sequence   *)
(* of its top-level nodes.  Every capture group of the source is one       *)
(* top-level node, so a match is the sequence of positions between them.   *)
(***************************************************************************)
Inf == 99    \* "no upper limit" of + and *: longer than any text

Wb == [t |-> "wb"]
Str(w) == [t |-> "str", s |-> w]
Rep(cls, lo, hi) == [t |-> "rep", cls |-> cls, lo |-> lo, hi |-> hi]
Opt(x) == [t |-> "opt", x |-> x]
Alt(xs) == [t |-> "alt", xs |-> xs]
Cat(xs) == [t |-> "cat", xs |-> xs]
Plus(cls) == Rep(cls, 1, Inf)
Star(cls) == Rep(cls, 0, Inf)
Words(ws) == Alt([k \in 1..Len(ws) |-> Str(ws[k])])

\* \b holds at position i (before s[i]) when exactly one neighbour is a word character
WbAt(s, i) ==
  LET before == i > 1 /\ s[i - 1] \in WordCh
      after == i <= Len(s) /\ s[i] \in WordCh
  IN before # after

\* length of the longest run of characters of cls starting at s[i], at most hi
RECURSIVE RunLen(_, _, _, _)
RunLen(s, i, cls, hi) ==
  IF hi = 0 \/ i > Len(s) \/ s[i] \notin cls THEN 0
  ELSE 1 + RunLen(s, i + 1, cls, hi - 1)

\* the positions n, n - 1, ..., m, longest first
Downto(n, m) == [k \in 1..(n - m + 1) |-> n + 1 - k]

RECURSIVE Flatten(_)
Flatten(ss) == IF ss = <<>> THEN <<>> ELSE Head(ss) \o Flatten(Tail(ss))

\* Ends(x, s, i): every position where a match of node x starting at i can
\* end, in the order in which a backtracking matcher tries them.
RECURSIVE Ends(_, _, _)
RECURSIVE EndsCat(_, _, _, _)
Ends(x, s, i) ==
  CASE x.t = "wb" -> IF WbAt(s, i) THEN <<i>> ELSE <<>>
    [] x.t = "str" ->
         IF i + Len(x.s) - 1 <= Len(s) /\ SubSeq(s, i, i + Len(x.s) - 1) = x.s
         THEN <<i + Len(x.s)>> ELSE <<>>
    [] x.t = "rep" ->
         LET n == RunLen(s, i, x.cls, x.hi)
         IN IF n < x.lo THEN <<>> ELSE Downto(i + n, i + x.lo)
    [] x.t = "opt" -> Ends(x.x, s, i) \o <<i>>
    [] x.t = "alt" -> Flatten([k \in 1..Len(x.xs) |-> Ends(x.xs[k], s, i)])
    [] x.t = "cat" -> EndsCat(x.xs, 1, s, i)

EndsCat(xs, k, s, i) ==
  IF k > Len(xs) THEN <<i>>
  ELSE LET es == Ends(xs[k], s, i)
       IN Flatten([j \in 1..Len(es) |-> EndsCat(xs, k + 1, s, es[j])])

\* MatchAt(parts, k, s, i): the positions after parts k, k+1, ... of the first
\* successful way to match them from position i, or <<>> when there is none.
RECURSIVE MatchAt(_, _, _, _)
RECURSIVE FirstOk(_, _, _, _, _)
MatchAt(parts, k, s, i) == FirstOk(parts, k, s, Ends(parts[k], s, i), 1)

FirstOk(parts, k, s, es, j) ==
  IF j > Len(es) THEN <<>>
  ELSE IF k = Len(parts) THEN <<es[j]>>
  ELSE LET rest == MatchAt(parts, k + 1, s, es[j])
       IN IF rest # <<>> THEN <<es[j]>> \o rest
          ELSE FirstOk(parts, k, s, es, j + 1)

\* the leftmost match at or after position i: <<start, end of part 1, ...>>
RECURSIVE ExecFrom(_, _, _)
ExecFrom(parts, s, i) ==
  IF i > Len(s) + 1 THEN <<>>
  ELSE LET m == MatchAt(parts, 1, s, i)
       IN IF m # <<>> THEN <<i>> \o m ELSE ExecFrom(parts, s, i + 1)

\* String.prototype.match / RegExp.prototype.exec without the g flag
Exec(re, s) == ExecFrom(re.parts, IF re.ci THEN toLowerCase(s) ELSE s, 1)

\* RegExp.prototype.test
Test(re, s) == Exec(re, s) # <<>>

\* the text matched by top-level part k in match m of s
Group(s, m, k) == SubSeq(s, m[k], m[k + 1] - 1)

(***************************************************************************)
(* Literals of the source                                                  *)
(***************************************************************************)
\* the words and the punctuation of the patterns and of the requests
W ==
  [top |-> <<"t", "o", "p">>,
   first |-> <<"f", "i", "r", "s", "t">>,
   latest |-> <<"l", "a", "t", "e", "s", "t">>,
   new |-> <<"n", "e", "w">>,
   recent |-> <<"r", "e", "c", "e", "n", "t">>,
   repo |-> <<"r", "e", "p", "o">>,
   s |-> <<"s">>,
   itories |-> <<"i", "t", "o", "r", "i", "e", "s">>,
   repositories |-> <<"r", "e", "p", "o", "s", "i", "t", "o", "r", "i", "e", "s">>,
   issues |-> <<"i", "s", "s", "u", "e", "s">>,
   prs |-> <<"p", "r", "s">>,
   pull_request |-> <<"p", "u", "l", "l", " ", "r", "e", "q", "u", "e", "s", "t">>,
   from |-> <<"f", "r", "o", "m">>,
   in |-> <<"i", "n">>,
   of |-> <<"o", "f">>,
   org |-> <<"o", "r", "g">>,
   organization |-> <<"o", "r", "g", "a", "n", "i", "z", "a", "t", "i", "o", "n">>,
   account |-> <<"a", "c", "c", "o", "u", "n", "t">>,
   user |-> <<"u", "s", "e", "r">>,
   owner |-> <<"o", "w", "n", "e", "r">>,
   tamb |-> <<"t", "a", "m", "b">>,
   language |-> <<"l", "a", "n", "g", "u", "a", "g", "e">>,
   lang |-> <<"l", "a", "n", "g">>,
   topic |-> <<"t", "o", "p", "i", "c">>,
   tag |-> <<"t", "a", "g">>,
   branch |-> <<"b", "r", "a", "n", "c", "h">>,
   sha |-> <<"s", "h", "a">>,
   issue |-> <<"i", "s", "s", "u", "e">>,
   pr |-> <<"p", "r">>,
   commit |-> <<"c", "o", "m", "m", "i", "t">>,
   summarize |-> <<"s", "u", "m", "m", "a", "r", "i", "z", "e">>,
   summary |-> <<"s", "u", "m", "m", "a", "r", "y">>,
   analyze |-> <<"a", "n", "a", "l", "y", "z", "e">>,
   overview |-> <<"o", "v", "e", "r", "v", "i", "e", "w">>,
   describe |-> <<"d", "e", "s", "c", "r", "i", "b", "e">>,
   open |-> <<"o", "p", "e", "n">>,
   opened |-> <<"o", "p", "e", "n", "e", "d">>,
   closed |-> <<"c", "l", "o", "s", "e", "d">>,
   close |-> <<"c", "l", "o", "s", "e">>,
   all |-> <<"a", "l", "l">>,
   any |-> <<"a", "n", "y">>,
   merged |-> <<"m", "e", "r", "g", "e", "d">>,
   resolved |-> <<"r", "e", "s", "o", "l", "v", "e", "d">>,
   list |-> <<"l", "i", "s", "t">>,
   show |-> <<"s", "h", "o", "w">>,
   get |-> <<"g", "e", "t">>,
   grab |-> <<"g", "r", "a", "b">>,
   fetch |-> <<"f", "e", "t", "c", "h">>,
   by |-> <<"b", "y">>,
   active |-> <<"a", "c", "t", "i", "v", "e">>,
   vercel |-> <<"v", "e", "r", "c", "e", "l">>,
   stars_gt_0 |-> <<"s", "t", "a", "r", "s", ":", ">", "0">>,
   org_colon |-> <<"o", "r", "g", ":">>,
   sp_user_colon |-> <<" ", "u", "s", "e", "r", ":">>,
   language_colon |-> <<"l", "a", "n", "g", "u", "a", "g", "e", ":">>,
   topic_colon |-> <<"t", "o", "p", "i", "c", ":">>,
   slash |-> <<"/">>,
   colon |-> <<":">>,
   dash |-> <<"-">>,
   space |-> <<" ">>,
   repos |-> <<"r", "e", "p", "o", "s">>,
   commits |-> <<"c", "o", "m", "m", "i", "t", "s">>,
   Show |-> <<"S", "h", "o", "w">>,
   me |-> <<"m", "e">>,
   n0 |-> <<"0">>,
   n5 |-> <<"5">>,
   n10 |-> <<"1", "0">>,
   n42 |-> <<"4", "2">>,
   n100 |-> <<"1", "0", "0">>,
   n999 |-> <<"9", "9", "9">>,
   n1000 |-> <<"1", "0", "0", "0">>,
   vercel_next_js |-> <<"v", "e", "r", "c", "e", "l", "/", "n", "e", "x", "t", ".", "j", "s">>,
   tambo_ai_tambo |-> <<"t", "a", "m", "b", "o", "-", "a", "i", "/", "t", "a", "m", "b", "o">>,
   a_b |-> <<"a", "/", "b">>,
   tambo_ai |-> <<"t", "a", "m", "b", "o", "-", "a", "i">>,
   pull_requests |-> <<"p", "u", "l", "l", " ", "r", "e", "q", "u", "e", "s", "t", "s">>,
   pull |-> <<"p", "u", "l", "l">>,
   request |-> <<"r", "e", "q", "u", "e", "s", "t">>,
   requests |-> <<"r", "e", "q", "u", "e", "s", "t", "s">>,
   and |-> <<"a", "n", "d">>,
   the |-> <<"t", "h", "e">>,
   next_js |-> <<"n", "e", "x", "t", ".", "j", "s">>,
   tambo |-> <<"t", "a", "m", "b", "o">>,
   a |-> <<"a">>,
   b |-> <<"b">>,
   Can |-> <<"C", "a", "n">>,
   you |-> <<"y", "o", "u">>,
   n4 |-> <<"4">>,
   for |-> <<"f", "o", "r">>,
   examples |-> <<"e", "x", "a", "m", "p", "l", "e", "s">>,
   vercel_examples |-> <<"v", "e", "r", "c", "e", "l", "/", "e", "x", "a", "m", "p", "l", "e", "s">>,
   repo_q |-> <<"r", "e", "p", "o", "?">>,
   Get |-> <<"G", "e", "t">>,
   project |-> <<"p", "r", "o", "j", "e", "c", "t">>,
   express |-> <<"e", "x", "p", "r", "e", "s", "s">>,
   improve |-> <<"i", "m", "p", "r", "o", "v", "e">>,
   url_docs |-> <<"h", "t", "t", "p", "s", ":", "/", "/", "e", "x", "a", "m", "p", "l", "e", ".", "c", "o", "m", "/", "d", "o", "c", "s">>,
   date_10_12_2024 |-> <<"1", "0", "/", "1", "2", "/", "2", "0", "2", "4">>,
   ts |-> <<"t", "s">>,
   ai |-> <<"a", "i">>]

(***************************************************************************)
(* The eight-intent resolver, src/src/services/resolve-github-intent.ts    *)
(***************************************************************************)
undefinedNumber == -2  \* `undefined` where a number is expected
undefined == <<"undefined">>   \* `undefined` where a string is expected (no text: its one element is no character)

IdCh == LowerCh \cup DigitCh \cup {"-", "_"}      \* [a-z0-9-_] under /i
IdDotCh == IdCh \cup {"."}                        \* [a-z0-9-_.] under /i
SepCh == {":", "-"}                               \* [:\-]

\* const clamp = (n, min, max) => Math.max(min, Math.min(max, n))
Min2(a, b) == IF a < b THEN a ELSE b
Max2(a, b) == IF a > b THEN a ELSE b
\* a clamp that lets every number through
clamp_unbounded(n, min, max) == n

clamp(n, min, max) == Max2(min, Min2(max, n))

\* a schema whose fallback_per_page is not optional
FallbackOk_required(f) == f >= 1 /\ f <= 100

\* z.number().int().min(1).max(100).optional().default(d)
FallbackOk(f) == f = undefinedNumber \/ (f >= 1 /\ f <= 100)
FallbackOr(f, d) == IF f = undefinedNumber THEN d ELSE f

\* a schema whose input has no .min(1)
SchemaOk_anyInput(t, f) == FallbackOk(f)

\* resolveGitHubIntentInputSchema.parse succeeds
SchemaOk(t, f) == Len(t) >= 1 /\ FallbackOk(f)

ZodError == [kind |-> "ZodError"]

normalizeState(s) ==
  IF s = undefined THEN "undefined"
  ELSE LET k == toLowerCase(s)
       IN IF k \in {W.open, W.opened, W.active} THEN "open"
          ELSE IF k \in {W.closed, W.close, W.merged, W.resolved} THEN "closed"
          ELSE IF k \in {W.all, W.any} THEN "all"
          ELSE "undefined"

\* /\b(top|first|latest|new|recent)\s+(\d{1,3})\b/i
reCountTop ==
  [ci |-> TRUE, caps |-> <<2, 4>>,
   parts |-> <<Wb, Words(<<W.top, W.first, W.latest, W.new, W.recent>>), Plus(SpaceCh),
               Rep(DigitCh, 1, 3), Wb>>]

\* repos?
RepoS == Cat(<<Str(W.repo), Opt(Str(W.s))>>)

\* /\b(\d{1,3})\s+(repos?|repositories|issues|prs|pull requests?)\b/i
reCountLane ==
  [ci |-> TRUE, caps |-> <<2, 4>>,
   parts |-> <<Wb, Rep(DigitCh, 1, 3), Plus(SpaceCh),
               Alt(<<RepoS, Str(W.repositories), Str(W.issues), Str(W.prs),
                     Cat(<<Str(W.pull_request), Opt(Str(W.s))>>)>>),
               Wb>>]

\* /\b(\d{1,3})\b/
reCountBare == [ci |-> FALSE, caps |-> <<2>>, parts |-> <<Wb, Rep(DigitCh, 1, 3), Wb>>]

\* text.match(re): found is FALSE for null; g holds the capture groups m[1], m[2], ...
\* (m.length is their number + 1)
Match(re, s) ==
  LET m == Exec(re, s)
  IN [found |-> m # <<>>,
      g |-> IF m = <<>> THEN <<>> ELSE [k \in 1..Len(re.caps) |-> Group(s, m, re.caps[k])]]

\* a || b over match results
OrElse(a, b) == IF a.found THEN a ELSE b

extractCount(t) ==
  LET m == OrElse(Match(reCountTop, t), OrElse(Match(reCountLane, t), Match(reCountBare, t)))
  IN IF ~m.found THEN undefinedNumber
     ELSE LET n == parseInt(m.g[Len(m.g)])      \* m[m.length - 1]
          IN IF n # NaN THEN clamp(n, 1, 100) ELSE undefinedNumber

\* /\b(?:from|in|of)\s+([a-z0-9-_]+)\s+(?:org|organization|account)\b/i
reOrgLike ==
  [ci |-> TRUE, caps |-> <<4>>,
   parts |-> <<Wb, Words(<<W.from, W.in, W.of>>), Plus(SpaceCh), Plus(IdCh), Plus(SpaceCh),
               Words(<<W.org, W.organization, W.account>>), Wb>>]

\* /\b(?:user|owner|org|organization|account)\s*[:\-]?\s*([a-z0-9-_]+)\b/i
reUserLike ==
  [ci |-> TRUE, caps |-> <<6>>,
   parts |-> <<Wb, Words(<<W.user, W.owner, W.org, W.organization, W.account>>), Star(SpaceCh),
               Rep(SepCh, 0, 1), Star(SpaceCh), Plus(IdCh), Wb>>]

extractOwner(t) ==
  LET orgLike == Match(reOrgLike, t)
      userLike == Match(reUserLike, t)
  IN IF orgLike.found THEN orgLike.g[1]
     ELSE IF userLike.found THEN userLike.g[1]
     ELSE undefined

\* /\b([a-z0-9-_]+)\/([a-z0-9-_.]+)\b/i
reSlash ==
  [ci |-> TRUE, caps |-> <<2, 4>>,
   parts |-> <<Wb, Plus(IdCh), Str(W.slash), Plus(IdDotCh), Wb>>]

\* /\brepo\s+([a-z0-9-_]+)\/([a-z0-9-_.]+)\b/i
reRepoWord ==
  [ci |-> TRUE, caps |-> <<4, 6>>,
   parts |-> <<Wb, Str(W.repo), Plus(SpaceCh), Plus(IdCh), Str(W.slash), Plus(IdDotCh), Wb>>]

\* /\btamb\s+repo\b/i
reTambRepo ==
  [ci |-> TRUE, caps |-> <<>>, parts |-> <<Wb, Str(W.tamb), Plus(SpaceCh), Str(W.repo), Wb>>]

NoFullName == [owner |-> undefined, repo |-> undefined]   \* extractFullName's `undefined`

extractFullName(t) ==
  LET slash == Match(reSlash, t)
      repoWord == Match(reRepoWord, t)
  IN IF slash.found THEN [owner |-> slash.g[1], repo |-> slash.g[2]]
     ELSE IF repoWord.found THEN [owner |-> repoWord.g[1], repo |-> repoWord.g[2]]
     ELSE IF Test(reTambRepo, t)
          THEN [owner |-> <<"t", "a", "m", "b", "o", "-", "a", "i">>,
                repo |-> <<"t", "a", "m", "b", "o">>]
     ELSE NoFullName

\* /\b(?:language|lang)\s*[:\-]?\s*([a-zA-Z#+.]+)\b/i
reLanguage ==
  [ci |-> TRUE, caps |-> <<6>>,
   parts |-> <<Wb, Words(<<W.language, W.lang>>), Star(SpaceCh), Rep(SepCh, 0, 1), Star(SpaceCh),
               Plus(LowerCh \cup UpperCh \cup {"#", "+", "."}), Wb>>]

\* /\b(?:topic|tag)\s*[:\-]?\s*([a-z0-9-]+)\b/i
reTopic ==
  [ci |-> TRUE, caps |-> <<6>>,
   parts |-> <<Wb, Words(<<W.topic, W.tag>>), Star(SpaceCh), Rep(SepCh, 0, 1), Star(SpaceCh),
               Plus(LowerCh \cup DigitCh \cup {"-"}), Wb>>]

\* /\b(?:branch|sha)\s*[:\-]?\s*([a-z0-9._\-\/]+)\b/i
reBranch ==
  [ci |-> TRUE, caps |-> <<6>>,
   parts |-> <<Wb, Words(<<W.branch, W.sha>>), Star(SpaceCh), Rep(SepCh, 0, 1), Star(SpaceCh),
               Plus(LowerCh \cup DigitCh \cup {".", "_", "-", "/"}), Wb>>]

\* m?.[1]
FirstGroupOr(m, d) == IF m.found THEN m.g[1] ELSE d

extractFilters(t) ==
  [language |-> FirstGroupOr(Match(reLanguage, t), undefined),
   topic |-> FirstGroupOr(Match(reTopic, t), undefined),
   shaOrBranch |-> FirstGroupOr(Match(reBranch, t), undefined)]

\* /\bissues?\b/, /\b(prs?|pull requests?)\b/, /\bcommits?\b/, /\brepos?(?:itories)?\b/
reLaneIssues ==
  [ci |-> FALSE, caps |-> <<>>, parts |-> <<Wb, Str(W.issue), Opt(Str(W.s)), Wb>>]
reLanePrs ==
  [ci |-> FALSE, caps |-> <<2>>,
   parts |-> <<Wb, Alt(<<Cat(<<Str(W.pr), Opt(Str(W.s))>>),
                         Cat(<<Str(W.pull_request), Opt(Str(W.s))>>)>>), Wb>>]
reLaneCommits ==
  [ci |-> FALSE, caps |-> <<>>, parts |-> <<Wb, Str(W.commit), Opt(Str(W.s)), Wb>>]
reLaneRepos ==
  [ci |-> FALSE, caps |-> <<>>,
   parts |-> <<Wb, Str(W.repo), Opt(Str(W.s)), Opt(Str(W.itories)), Wb>>]

\* the lanes tried in another order: pull requests before issues
extractLane_prsFirst(tx) ==
  LET t == toLowerCase(tx)
  IN IF Test(reLanePrs, t) THEN "prs"
     ELSE IF Test(reLaneIssues, t) THEN "issues"
     ELSE IF Test(reLaneCommits, t) THEN "commits"
     ELSE IF Test(reLaneRepos, t) THEN "repos"
     ELSE "undefined"

\* the lanes tried in another order: commits before pull requests
extractLane_commitsFirst(tx) ==
  LET t == toLowerCase(tx)
  IN IF Test(reLaneIssues, t) THEN "issues"
     ELSE IF Test(reLaneCommits, t) THEN "commits"
     ELSE IF Test(reLanePrs, t) THEN "prs"
     ELSE IF Test(reLaneRepos, t) THEN "repos"
     ELSE "undefined"

extractLane(tx) ==
  LET t == toLowerCase(tx)
  IN IF Test(reLaneIssues, t) THEN "issues"
     ELSE IF Test(reLanePrs, t) THEN "prs"
     ELSE IF Test(reLaneCommits, t) THEN "commits"
     ELSE IF Test(reLaneRepos, t) THEN "repos"
     ELSE "undefined"

Join2(a, b) == IF a = <<>> THEN b ELSE a \o W.space \o b    \* parts.join(" "), part by part

\* a query that may be empty: no "stars:>0" when nothing is left
buildSearchQuery_orEmpty(owner, language, topic, extra) ==
  LET p1 == IF owner # undefined THEN W.org_colon \o owner \o W.sp_user_colon \o owner ELSE <<>>
      p2 == IF language # undefined THEN Join2(p1, W.language_colon \o language) ELSE p1
      p3 == IF topic # undefined THEN Join2(p2, W.topic_colon \o topic) ELSE p2
      p4 == IF extra # <<>> THEN Join2(p3, extra) ELSE p3
  IN trim(p4)

buildSearchQuery(owner, language, topic, extra) ==
  LET p1 == IF owner # undefined THEN W.org_colon \o owner \o W.sp_user_colon \o owner ELSE <<>>
      p2 == IF language # undefined THEN Join2(p1, W.language_colon \o language) ELSE p1
      p3 == IF topic # undefined THEN Join2(p2, W.topic_colon \o topic) ELSE p2
      p4 == IF extra # <<>> THEN Join2(p3, extra) ELSE p3
      q == trim(p4)
  IN IF q # <<>> THEN q ELSE W.stars_gt_0

\* /\b(summarize|summary|analyze|overview|describe)\b/i
reSummarize ==
  [ci |-> TRUE, caps |-> <<2>>,
   parts |-> <<Wb, Words(<<W.summarize, W.summary, W.analyze, W.overview, W.describe>>), Wb>>]

\* /\b(open|opened|closed|close|all|any|merged|resolved)\b/i
reState ==
  [ci |-> TRUE, caps |-> <<2>>,
   parts |-> <<Wb, Words(<<W.open, W.opened, W.closed, W.close, W.all, W.any, W.merged,
                           W.resolved>>), Wb>>]

ListVerbs == Words(<<W.list, W.show, W.get, W.grab, W.fetch, W.all>>)
ReposWord == Alt(<<RepoS, Str(W.repositories)>>)      \* (?:repos?|repositories)

\* /\b(?:list|show|get|grab|fetch|all)\b.*\b(?:repos?|repositories)\b.*\b(?:from|of|in)\s+([a-z0-9-_]+)\s+(?:org|organization)\b/i
reOrgRepoList ==
  [ci |-> TRUE, caps |-> <<12>>,
   parts |-> <<Wb, ListVerbs, Wb, Star(AnyCh), Wb, ReposWord, Wb, Star(AnyCh), Wb,
               Words(<<W.from, W.of, W.in>>), Plus(SpaceCh), Plus(IdCh), Plus(SpaceCh),
               Words(<<W.org, W.organization>>), Wb>>]

\* /\b(?:list|show|get|grab|fetch|all)\b.*\b(?:repos?|repositories)\b.*\b(?:from|of|in|by)\s+(?:user\s+)?([a-z0-9-_]+)\b/i
reUserRepoList ==
  [ci |-> TRUE, caps |-> <<13>>,
   parts |-> <<Wb, ListVerbs, Wb, Star(AnyCh), Wb, ReposWord, Wb, Star(AnyCh), Wb,
               Words(<<W.from, W.of, W.in, W.by>>), Plus(SpaceCh),
               Opt(Cat(<<Str(W.user), Plus(SpaceCh)>>)), Plus(IdCh), Wb>>]

\* /\borg\b/i
reOrgWord == [ci |-> TRUE, caps |-> <<>>, parts |-> <<Wb, Str(W.org), Wb>>]

\* /\b([a-z0-9-_]+)\s+(?:org|organization)\s+repos?\b/i
reSimpleOrgList ==
  [ci |-> TRUE, caps |-> <<2>>,
   parts |-> <<Wb, Plus(IdCh), Plus(SpaceCh), Words(<<W.org, W.organization>>), Plus(SpaceCh),
               RepoS, Wb>>]

\* /\b([a-z0-9-_]+)\s+repos?\b/i
reSimpleUserList ==
  [ci |-> TRUE, caps |-> <<2>>, parts |-> <<Wb, Plus(IdCh), Plus(SpaceCh), RepoS, Wb>>]

\* count ?? fallback_per_page
CountOr(c, f) == IF c # undefinedNumber THEN c ELSE f

\* resolveGitHubIntent({ input: textRaw, fallback_per_page: f })
resolveGitHubIntent(textRaw, f) ==
  IF ~SchemaOk(textRaw, f) THEN ZodError
  ELSE
  LET fallback == FallbackOr(f, 10)
      t == trim(textRaw)
      isSummarization == Test(reSummarize, t)
      full == extractFullName(t)
      lane == extractLane(t)
      stateWord == FirstGroupOr(Match(reState, t), undefined)
      state == normalizeState(stateWord)
      perPage == CountOr(extractCount(t), fallback)
      owner == extractOwner(t)
      count == CountOr(extractCount(t), fallback)
      filters == extractFilters(t)
      isOrgRepoList == Test(reOrgRepoList, t)
      isUserRepoList == Test(reUserRepoList, t) /\ ~Test(reOrgWord, t)
      isSimpleOrgList == Test(reSimpleOrgList, t)
      isSimpleUserList == Test(reSimpleUserList, t) /\ ~Test(reOrgWord, t)
  IN IF isSummarization /\ full # NoFullName
       THEN [kind |-> "summarize_repo", params |-> [owner |-> full.owner, repo |-> full.repo]]
     ELSE IF full # NoFullName THEN
       IF lane = "issues"
         THEN [kind |-> "list_issues",
               params |-> [owner |-> full.owner, repo |-> full.repo, state |-> state,
                           per_page |-> perPage]]
       ELSE IF lane = "prs"
         THEN [kind |-> "list_prs",
               params |-> [owner |-> full.owner, repo |-> full.repo, state |-> state,
                           per_page |-> perPage]]
       ELSE IF lane = "commits"
         THEN [kind |-> "list_commits",
               params |-> [owner |-> full.owner, repo |-> full.repo,
                           sha |-> filters.shaOrBranch, per_page |-> perPage]]
       ELSE [kind |-> "get_repo", params |-> [owner |-> full.owner, repo |-> full.repo]]
     ELSE IF owner # undefined /\ (isOrgRepoList \/ isSimpleOrgList)
       THEN [kind |-> "list_org_repos", params |-> [org |-> owner, per_page |-> count]]
     ELSE IF owner # undefined /\ (isUserRepoList \/ isSimpleUserList)
       THEN [kind |-> "list_user_repos", params |-> [username |-> owner, per_page |-> count]]
     ELSE [kind |-> "search_repos",
           params |-> [q |-> buildSearchQuery(owner, filters.language, filters.topic, t),
                       per_page |-> count]]

(***************************************************************************)
(* The three-intent resolver, src/unnamed/part_007 (names end in 3)        *)
(***************************************************************************)
\* /\b(\d{1,2})\b/
reCount3 == [ci |-> FALSE, caps |-> <<2>>, parts |-> <<Wb, Rep(DigitCh, 1, 2), Wb>>]

extractCount3(t) ==
  LET match == Match(reCount3, t)
  IN IF match.found THEN clamp(parseInt(match.g[1]), 1, 100) ELSE 4

\* /\bfrom\s+([a-z0-9-_]+)(?:\s+org)?\b/i
reFromOrg3 ==
  [ci |-> TRUE, caps |-> <<4>>,
   parts |-> <<Wb, Str(W.from), Plus(SpaceCh), Plus(IdCh),
               Opt(Cat(<<Plus(SpaceCh), Str(W.org)>>)), Wb>>]

extractOrg3(t) == FirstGroupOr(Match(reFromOrg3, t), undefined)

\* /\bfrom\s+([a-z0-9-_]+)\/([a-z0-9-_.]+)\b/i
reFromRepo3 ==
  [ci |-> TRUE, caps |-> <<4, 6>>,
   parts |-> <<Wb, Str(W.from), Plus(SpaceCh), Plus(IdCh), Str(W.slash), Plus(IdDotCh), Wb>>]

extractRepo3(t) ==
  LET match == Match(reFromRepo3, t)
  IN IF match.found THEN [owner |-> match.g[1], repo |-> match.g[2]] ELSE NoFullName

resolveGitHubIntent3(textRaw, f) ==
  IF ~SchemaOk(textRaw, f) THEN ZodError
  ELSE
  LET t == toLowerCase(trim(textRaw))
      count == extractCount3(t)
      repo == extractRepo3(t)
      org == extractOrg3(t)
  IN IF repo # NoFullName /\ includes(t, W.issue)
       THEN [kind |-> "list_issues",
             params |-> [owner |-> repo.owner, repo |-> repo.repo, state |-> "open",
                         per_page |-> count]]
     ELSE IF repo # NoFullName /\ (includes(t, W.pull_request) \/ includes(t, W.pr))
       THEN [kind |-> "list_prs",
             params |-> [owner |-> repo.owner, repo |-> repo.repo, state |-> "open",
                         per_page |-> count]]
     ELSE IF org # undefined /\ includes(t, W.repo)
       THEN [kind |-> "list_org_repos", params |-> [org |-> org, per_page |-> count]]
     ELSE IF org # undefined
       THEN [kind |-> "list_org_repos", params |-> [org |-> org, per_page |-> count]]
     ELSE [kind |-> "list_org_repos", params |-> [org |-> W.vercel, per_page |-> count]]

(***************************************************************************)
(* The requests given to the resolvers.  A request is a text and a         *)
(* fallback page size.  The texts are every sequence of at most MaxWords   *)
(* words of Vocabulary, the request forms the resolvers are written for,   *)
(* and the examples of the documentation and the test page.                *)
(***************************************************************************)

MaxWords == 2      \* longest free text, in words

RECURSIVE Join(_)
Join(ws) == IF Len(ws) = 0 THEN <<>>
            ELSE IF Len(ws) = 1 THEN ws[1]
            ELSE ws[1] \o W.space \o Join(Tail(ws))

\* words of a request that names no owner/repo pair
Vocabulary ==
  {W.show, W.top, W.new, W.n5, W.n10, W.issues, W.prs, W.repos, W.from, W.org, W.user,
   W.tambo_ai}

\* words of a request that names one
PairVocabulary ==
  {W.show, W.n5, W.issues, W.prs, W.pull_requests, W.commits, W.summarize, W.summary, W.open}

WordSeqs(ws, n) == UNION {[1..k -> ws] : k \in 0..n}

FreeTexts == {Join(ws) : ws \in WordSeqs(Vocabulary, MaxWords)}

\* words, then an owner/repo pair
PairTexts == {Join(ws \o <<W.vercel_next_js>>) : ws \in WordSeqs(PairVocabulary, MaxWords)}

CountWords == {W.n0, W.n5, W.n42, W.n100, W.n999, W.n1000}
RepoPairs == {<<W.vercel, W.next_js>>, <<W.tambo_ai, W.tambo>>, <<W.a, W.b>>}
OrgNames == {W.tambo_ai, W.vercel}

\* "show N issues from OWNER/REPO"
ShowIssuesText(n, o, r) == Join(<<W.show, n, W.issues, W.from, o \o W.slash \o r>>)

\* "X org repos", also after "Show me"
OrgReposText(showMe, x) ==
  Join((IF showMe THEN <<W.Show, W.me>> ELSE <<>>) \o <<x, W.org, W.repos>>)

\* "show N repos from ORG" and "show N pull requests from OWNER/REPO"
ShowReposText(n, x) == Join(<<W.show, n, W.repos, W.from, x>>)
ShowPrsText(n, o, r) == Join(<<W.show, n, W.pull_requests, W.from, o \o W.slash \o r>>)

\* "Get X repositories"
GetRepositoriesText(x) == Join(<<W.Get, x, W.repositories>>)

\* "S issues o/r" and "S prs o/r" for a state word S
StateText(sw, lane, o, r) == Join(<<sw, lane, o \o W.slash \o r>>)

StateTexts ==
  {StateText(sw, lane, W.vercel, W.next_js) :
     sw \in {W.open, W.opened, W.active, W.closed, W.close, W.merged, W.resolved, W.all,
             W.any},
     lane \in {W.issues, W.prs}}

FormTexts ==
  {ShowIssuesText(n, p[1], p[2]) : n \in CountWords, p \in RepoPairs}
  \cup {ShowPrsText(n, p[1], p[2]) : n \in CountWords, p \in RepoPairs}
  \cup {ShowReposText(n, x) : n \in CountWords, x \in OrgNames}
  \cup {GetRepositoriesText(x) : x \in OrgNames}
  \cup {OrgReposText(b, x) : b \in BOOLEAN, x \in OrgNames}
  \cup StateTexts

ExampleTexts ==
  {Join(<<W.top, W.n10, W.repos>>),                 \* "top 10 repos"
   Join(<<W.show, W.repos>>),                      \* "show repos"
   Join(<<W.n999, W.issues>>),                      \* "999 issues"
   Join(<<W.top, W.n999, W.repos>>),                \* "top 999 repos"
   Join(<<W.top, W.n0, W.repos>>),                  \* "top 0 repos"
   Join(<<W.top, W.n0, W.issues, W.vercel_next_js>>),   \* "top 0 issues vercel/next.js"
   \* "Can you show me 4 open issues for the vercel/examples repo?"
   Join(<<W.Can, W.you, W.show, W.me, W.n4, W.open, W.issues, W.for, W.the, W.vercel_examples,
          W.repo_q>>),
   W.space,                                        \* " "
   <<>>}                                           \* ""

\* phrases that name an owner, texts with a slash that is no pair, words that hold "pr",
\* and search qualifiers
PhraseTexts ==
  {Join(<<v, W.repos>> \o ph) :
     v \in {W.list, W.show, W.get},
     ph \in UNION {{<<W.from, x, W.org>>, <<W.in, x, W.organization>>, <<W.from, W.user, x>>,
                    <<W.by, W.user, x>>, <<W.of, W.owner, x>>, <<W.from, W.organization, x>>,
                    <<W.from, W.org, x>>, <<W.by, W.user, x, W.organization>>} :
                     x \in OrgNames}}
  \cup {W.url_docs,                                      \* "https://example.com/docs"
        W.date_10_12_2024,                               \* "10/12/2024"
        Join(<<W.show, W.issues, W.url_docs>>),
        Join(<<W.commits, W.date_10_12_2024>>),
        Join(<<W.project, W.from, W.vercel_next_js>>),   \* "project from vercel/next.js"
        Join(<<W.improve, W.vercel_next_js>>),
        Join(<<W.express, W.from, W.vercel_next_js>>),
        Join(<<W.repos, W.language, W.ts>>),             \* "repos language ts"
        Join(<<W.repos, W.topic, W.ai>>),
        Join(<<W.repos, W.user, W.vercel, W.language, W.ts, W.topic, W.ai>>)}

Texts == FreeTexts \cup PairTexts \cup FormTexts \cup ExampleTexts \cup PhraseTexts

\* fallback_per_page: left out, in range, and out of range
Fallbacks == {7}
EdgeFallbacks == {undefinedNumber, 0, 1, 100, 101}

Requests ==
  (Texts \X Fallbacks) \cup ((FormTexts \cup ExampleTexts) \X EdgeFallbacks)

(***************************************************************************)
(* The resolver as a state machine: one request, resolved by each version  *)
(***************************************************************************)
Pending == [kind |-> "pending"]

NotDispatched == [kind |-> "none"]

\* state: intent.params.state ?? "open"
StateOr(st, d) == IF st = "undefined" THEN d ELSE st

\* the switch over intent.kind: the wrapper called and the parameters it is called with
Dispatched(i) ==
  IF i.kind = "list_org_repos"
    THEN [kind |-> "invoke", intent |-> i, op |-> "getOrganizationRepositories",
          params |-> i.params]
  ELSE IF i.kind = "list_user_repos"
    THEN [kind |-> "invoke", intent |-> i, op |-> "getUserRepositories", params |-> i.params]
  ELSE IF i.kind = "search_repos"
    THEN [kind |-> "invoke", intent |-> i, op |-> "searchRepositories", params |-> i.params]
  ELSE IF i.kind = "get_repo"
    THEN [kind |-> "invoke", intent |-> i, op |-> "getRepository", params |-> i.params]
  ELSE IF i.kind = "list_issues"
    THEN [kind |-> "invoke", intent |-> i, op |-> "getRepositoryIssues",
          params |-> [i.params EXCEPT !.state = StateOr(@, "open"),
                                      !.per_page = CountOr(@, 30)]]
  ELSE IF i.kind = "list_prs"
    THEN [kind |-> "invoke", intent |-> i, op |-> "getRepositoryPRs",
          params |-> [i.params EXCEPT !.state = StateOr(@, "open"),
                                      !.per_page = CountOr(@, 30)]]
  ELSE IF i.kind = "list_commits"
    THEN [kind |-> "invoke", intent |-> i, op |-> "getRepositoryCommits",
          params |-> [i.params EXCEPT !.per_page = CountOr(@, 30)]]
  ELSE [kind |-> "throw", intent |-> i, message |-> <<"Unknown intent kind: ", i.kind>>]

\* tools[resolveGitHubIntent].tool({ input, fallback_per_page: f })
\* tools[resolveGitHubIntent].tool after its call of the resolver: a validation error of the
\* resolver leaves the tool as it is, an intent goes through the switch
resolveGitHubIntentTool(i) ==
  IF i = ZodError THEN [kind |-> "throw", error |-> ZodError] ELSE Dispatched(i)

AdapterIdle ==
  /\ api = 1 /\ token = TRUE /\ op = "none" /\ args = <<>> /\ pc = "idle" /\ sent = <<>>
  /\ received = <<>> /\ page1 = <<>> /\ outcome = [kind |-> "none"]

ToolIdle == tool = "none" /\ reads = <<>> /\ order = <<>> /\ result = [kind |-> "none"]

InitResolver ==
  /\ \E rq \in Requests : text = rq[1] /\ fallback_per_page = rq[2]
  /\ intent = Pending
  /\ intent3 = Pending
  /\ dispatch = NotDispatched
  /\ AdapterIdle
  /\ ToolIdle

\* a call of resolveGitHubIntent of src/src/services/resolve-github-intent.ts: by a caller of
\* its own (the test page), or by the tool "resolveGitHubIntent" of src/src/lib/tambo.ts, which
\* passes params.fallback_per_page ?? 10, keeps the result as its `intent` and goes on to the
\* wrapper it awaits
Resolve(viaTool) ==
  /\ intent = Pending
  /\ \E i \in {resolveGitHubIntent(text, IF viaTool THEN FallbackOr(fallback_per_page, 10)
                                                     ELSE fallback_per_page)} :
       /\ intent' = i
       /\ dispatch' = IF viaTool THEN resolveGitHubIntentTool(i) ELSE dispatch
  /\ UNCHANGED <<text, fallback_per_page, intent3, adapterVars, toolVars>>

\* a call of resolveGitHubIntent of src/unnamed/part_007
Resolve3 ==
  /\ intent3 = Pending
  /\ intent3' = resolveGitHubIntent3(text, fallback_per_page)
  /\ UNCHANGED <<text, fallback_per_page, intent, dispatch, adapterVars, toolVars>>

NextResolver == (\E viaTool \in BOOLEAN : Resolve(viaTool)) \/ Resolve3

SpecResolver == InitResolver /\ [][NextResolver]_vars

(***************************************************************************)
(* The GitHub adapter, src/src/services/github-api.ts.  The file holds two *)
(* versions of class GitHubAPI: lines 25-400 (api = 1: request() adds      *)
(* hints to 403 and 404, getRepositoryIssues retries) and lines 429-683    *)
(* (api = 2: neither).                                                     *)
(***************************************************************************)
MaxPage == 2       \* most items in one response body
MaxPerPage == 2    \* largest per_page a caller asks for

ParseOps ==
  {"getRepository", "getRepositoryIssues", "getOrganizationIssues", "getRepositoryPRs",
   "getRepositoryCommits", "getRepositoryBranches", "getPullRequest", "getIssue",
   "searchRepositories", "getOrganizationRepositories", "getUserRepositories"}
RecordOps == {"getRepository", "getPullRequest", "getIssue"}      \* schema.parse(data)
ListOps == ParseOps \ RecordOps                                   \* data.map(item => schema.parse(item))
RawOps == {"getRateLimit", "getPullRequestDiff", "getIssueComments", "getPullRequestComments"}
VoidOps == {"starRepository", "unstarRepository", "createIssueComment", "addIssueLabels"}
Ops == ParseOps \cup RawOps \cup VoidOps \cup {"getRepositoryReadme"}

\* the schema an operation parses its records with
SchemaOf(o) ==
  CASE o \in {"getRepository", "searchRepositories", "getOrganizationRepositories",
              "getUserRepositories"} -> "githubRepoSchema"
    [] o \in {"getRepositoryIssues", "getOrganizationIssues", "getIssue"} -> "githubIssueSchema"
    [] o \in {"getRepositoryPRs", "getPullRequest"} -> "githubPRSchema"
    [] o = "getRepositoryCommits" -> "githubCommitSchema"
    [] o = "getRepositoryBranches" -> "githubBranchSchema"
    [] OTHER -> "none"

\* An item of a response body: whether it carries a pull_request field, and
\* whether it has the shape the operation's schema asks for.
RawItems == [pull_request : BOOLEAN, shape_ok : BOOLEAN]
Pages == UNION {[1..n -> RawItems] : n \in 0..MaxPage}

Bodies(o) ==
  IF o \in ListOps THEN Pages
  ELSE IF o \in RecordOps THEN {<<i>> : i \in RawItems}
  ELSE {<<>>}

\* What fetch gives: no response at all, or a response with a status and a
\* body; json says whether response.json() can parse the body.
NoResponse == [kind |-> "failed"]
ErrorStatuses == {403, 404, 500}
OkStatuses == {200, 204}
HttpResponses(o) ==
  {[kind |-> "http", status |-> s, json |-> TRUE, body |-> <<>>] : s \in ErrorStatuses}
  \cup {[kind |-> "http", status |-> s, json |-> FALSE, body |-> <<>>] : s \in OkStatuses}
  \cup {[kind |-> "http", status |-> 200, json |-> TRUE, body |-> b] : b \in Bodies(o)}

ResponseOk(resp) == resp.status >= 200 /\ resp.status <= 299     \* response.ok

\* new GitHubAPIError(message, status); status 0 stands for `undefined`
GitHubAPIError(message, status) ==
  [kind |-> "throw", name |-> "GitHubAPIError", status |-> status, message |-> message]

\* what schema.parse throws
ZodParseError ==
  [kind |-> "throw", name |-> "ZodError", status |-> 0, message |-> <<"ZodError">>]

TokenHint403 == "Token may lack required permissions for this endpoint. Check your PAT permissions"
NoTokenHint403 == "No GitHub token provided. Set GITHUB_TOKEN for private repos/orgs."
Hint404 == "Repository or organization not found, or access denied. Check the owner/repo name and your token permissions."
IssuesDenied == "Access denied to issues. This repository may require Issues: read permission for your token."
SearchDenied == "Access denied to search issues in organization. This requires search permission in your fine-grained PAT."

\* errorMessage of request(): the base text, then the hint version 1 appends
ErrorMessage(v, tok, status) ==
  <<"GitHub API error: status statusText - errorText">>
  \o (IF v = 1 /\ status = 403 THEN <<IF tok THEN TokenHint403 ELSE NoTokenHint403>>
      ELSE IF v = 1 /\ status = 404 THEN <<Hint404>>
      ELSE <<>>)

\* GitHubAPI.request: [ok |-> TRUE, data] when it returns, [ok |-> FALSE, err] when it throws
request(v, tok, resp) ==
  IF resp.kind = "failed"
    THEN [ok |-> FALSE, err |-> GitHubAPIError(<<"Network error: fetch failed">>, 0)]
  ELSE IF ~ResponseOk(resp)
    THEN [ok |-> FALSE,
          err |-> GitHubAPIError(ErrorMessage(v, tok, resp.status), resp.status)]
  ELSE IF ~resp.json      \* response.json() throws, the catch wraps it
    THEN [ok |-> FALSE, err |-> GitHubAPIError(<<"Network error: Unexpected end of JSON input">>, 0)]
  ELSE [ok |-> TRUE, data |-> resp.body]

\* schema.parse(item): the parsed record (the keys of the schema only), from the item it was read from
Parsed(schema, item) == [validated |-> schema, raw |-> item]
\* data handed on without a parse
Unparsed(item) == [validated |-> "none", raw |-> item]

Returns(shape, value) == [kind |-> "return", shape |-> shape, value |-> value]

\* the items handed on without a parse
ParseAll_unchecked(schema, items) ==
  Returns("list", [i \in 1..Len(items) |-> Unparsed(items[i])])

\* items.map(item => schema.parse(item)): throws at the first item that is not of the shape
ParseAll(schema, items) ==
  IF \E i \in 1..Len(items) : ~items[i].shape_ok THEN ZodParseError
  ELSE Returns("list", [i \in 1..Len(items) |-> Parsed(schema, items[i])])

\* a filter that keeps every item
FilterPRs_keepAll(items) == items

\* data.filter(item => !item.pull_request)
RECURSIVE FilterPRs(_)
FilterPRs(items) ==
  IF items = <<>> THEN <<>>
  ELSE IF Head(items).pull_request THEN FilterPRs(Tail(items))
  ELSE <<Head(items)>> \o FilterPRs(Tail(items))

\* How an operation other than getRepositoryIssues ends, given what request() gave
Settle(o, v, r) ==
  IF o \in RecordOps THEN
       IF ~r.ok THEN r.err
       ELSE IF ~r.data[1].shape_ok THEN ZodParseError
       ELSE Returns("record", <<Parsed(SchemaOf(o), r.data[1])>>)
  ELSE IF o = "getOrganizationIssues" THEN
       IF ~r.ok THEN
            IF r.err.name = "GitHubAPIError" /\ r.err.status = 403
            THEN GitHubAPIError(<<SearchDenied>>, 403) ELSE r.err
       ELSE ParseAll(SchemaOf(o), r.data)
  ELSE IF o \in ListOps THEN
       IF ~r.ok THEN r.err ELSE ParseAll(SchemaOf(o), r.data)
  ELSE IF o = "getRepositoryReadme" THEN
       IF ~r.ok THEN
            IF r.err.name = "GitHubAPIError" /\ r.err.status = 404
            THEN Returns("null", <<>>) ELSE r.err
       ELSE Returns("raw", [i \in 1..Len(r.data) |-> Unparsed(r.data[i])])
  ELSE IF o \in VoidOps THEN
       IF ~r.ok THEN r.err ELSE Returns("void", <<>>)
  ELSE IF ~r.ok THEN r.err
       ELSE Returns("raw", [i \in 1..Len(r.data) |-> Unparsed(r.data[i])])

\* the outer catch of getRepositoryIssues
IssuesCatch(v, err) ==
  IF v = 1 /\ err.name = "GitHubAPIError" /\ err.status = 403
  THEN GitHubAPIError(<<IssuesDenied>>, 403) ELSE err

\* getRepositoryIssues asks again: version 1, nothing left after the filter, page not empty
NeedsRetry(v, r) == v = 1 /\ r.ok /\ FilterPRs(r.data) = <<>> /\ Len(r.data) > 0

\* getRepositoryIssues after its first request when it does not ask again
SettleIssues(v, r) ==
  IF ~r.ok THEN IssuesCatch(v, r.err)
  ELSE LET parsed == ParseAll("githubIssueSchema", FilterPRs(r.data))
       IN IF parsed.kind = "throw" THEN IssuesCatch(v, parsed) ELSE parsed

\* a retry whose failure is thrown on
SettleRetry_rethrow(v, r, issuesOnly) ==
  IF ~r.ok THEN IssuesCatch(v, r.err)
  ELSE LET fromRetry == ParseAll("githubIssueSchema", FilterPRs(r.data))
       IN IF fromRetry.kind = "throw" THEN fromRetry
          ELSE IF Len(fromRetry.value) > 0 THEN fromRetry
          ELSE ParseAll("githubIssueSchema", issuesOnly)

\* getRepositoryIssues after its retry request; issuesOnly is what the first pass kept
SettleRetry(v, r, issuesOnly) ==
  LET filteredIssues == IF r.ok THEN FilterPRs(r.data) ELSE <<>>
      fromRetry == ParseAll("githubIssueSchema", filteredIssues)
      fromFirst == ParseAll("githubIssueSchema", issuesOnly)
  IN IF r.ok /\ Len(filteredIssues) > 0 /\ fromRetry.kind = "return" THEN fromRetry
     ELSE IF fromFirst.kind = "throw" THEN IssuesCatch(v, fromFirst)
     ELSE fromFirst

\* the requests an operation sends
FirstRequest(o, a) == [endpoint |-> o, per_page |-> a.per_page, filter |-> "none"]
RetryRequest(o, a) == [endpoint |-> o, per_page |-> a.per_page, filter |-> "issues"]

Args == [per_page : 1..MaxPerPage]

InitAdapter ==
  /\ text = <<>> /\ fallback_per_page = undefinedNumber /\ intent = Pending /\ intent3 = Pending
  /\ dispatch = NotDispatched
  /\ api \in {1, 2}
  /\ token \in BOOLEAN
  /\ op = "none" /\ args = <<>> /\ pc = "idle" /\ sent = <<>> /\ received = <<>>
  /\ page1 = <<>> /\ outcome = [kind |-> "none"]
  /\ ToolIdle

\* a caller starts an operation: its first request goes out
Call(o, a) ==
  /\ pc = "idle"
  /\ o = "getOrganizationIssues" => api = 1      \* version 2 has no such method
  /\ op' = o
  /\ args' = a
  /\ sent' = <<FirstRequest(o, a)>>
  /\ pc' = "await1"
  /\ UNCHANGED <<resolverVars, api, token, received, page1, outcome, toolVars>>

\* the first fetch settles with resp; the operation runs on to its end or to its retry request
Settled(resp) ==
  LET r == request(api, token, resp)
  IN /\ received' = Append(received, resp)
     /\ IF op = "getRepositoryIssues" /\ NeedsRetry(api, r)
        THEN /\ page1' = FilterPRs(r.data)
             /\ sent' = Append(sent, RetryRequest(op, args))
             /\ pc' = "await2"
             /\ UNCHANGED outcome
        ELSE /\ outcome' = IF op = "getRepositoryIssues" THEN SettleIssues(api, r)
                           ELSE Settle(op, api, r)
             /\ pc' = "done"
             /\ UNCHANGED <<sent, page1>>
     /\ UNCHANGED <<resolverVars, api, token, op, args, toolVars>>

Respond == pc = "await1" /\ \E resp \in HttpResponses(op) : Settled(resp)

FetchFails == pc = "await1" /\ Settled(NoResponse)

\* the retry fetch of getRepositoryIssues settles with resp
RetrySettled(resp) ==
  /\ received' = Append(received, resp)
  /\ outcome' = SettleRetry(api, request(api, token, resp), page1)
  /\ pc' = "done"
  /\ UNCHANGED <<resolverVars, api, token, op, args, sent, page1, toolVars>>

RespondRetry == pc = "await2" /\ \E resp \in HttpResponses(op) : RetrySettled(resp)

RetryFetchFails == pc = "await2" /\ RetrySettled(NoResponse)

NextAdapter ==
  \/ \E o \in Ops, a \in Args : Call(o, a)
  \/ Respond
  \/ FetchFails
  \/ RespondRetry
  \/ RetryFetchFails

SpecAdapter == InitAdapter /\ [][NextAdapter]_vars

(***************************************************************************)
(* The tool callables: the wrappers of github-tools (src/unnamed/part_006  *)
(* and src/src/services/music-search.ts) and the summarize tools of the    *)
(* tool registry (src/unnamed/part_003).  A tool calls one adapter         *)
(* operation or several; several are awaited one after the other, or all   *)
(* are started at once and joined with Promise.all.                        *)
(***************************************************************************)
ParallelTools ==
  {"analyzeRepository", "summarizeRepository", "summarizePullRequest", "summarizeIssue"}
SequentialTools == {"testGitHubAPI", "generateReleaseNotes"}
\* tools whose catch block returns an object that carries the error text
ReturningTools ==
  {"testGitHubAPI", "summarizeRepository", "summarizePullRequest", "summarizeIssue"}
\* tools that await one operation and throw `Failed to ...: message`
WrapperTools ==
  {"getRepository", "searchRepositories", "getOrganizationRepositories", "getUserRepositories",
   "getRepositoryBranches", "getRepositoryIssues", "getOrganizationIssues", "getRepositoryPRs",
   "getRepositoryCommits", "starRepository", "unstarRepository", "addIssueComment",
   "addIssueLabels", "analyzePullRequest", "classifyIssue"}
Tools == WrapperTools \cup ParallelTools \cup SequentialTools

\* the adapter operations a tool calls, in the order of its code
ToolReads(t) ==
  CASE t = "analyzeRepository" ->
         <<"getRepository", "getRepositoryIssues", "getRepositoryPRs", "getRepositoryCommits">>
    [] t = "summarizeRepository" -> <<"getRepository", "getRepositoryReadme">>
    [] t = "summarizePullRequest" ->
         <<"getPullRequest", "getPullRequestDiff", "getPullRequestComments">>
    [] t = "summarizeIssue" -> <<"getIssue", "getIssueComments">>
    [] t = "testGitHubAPI" -> <<"getRepositoryIssues", "getRateLimit">>
    [] t = "generateReleaseNotes" -> <<"getRepositoryCommits", "getRepositoryPRs">>
    [] t = "addIssueComment" -> <<"createIssueComment">>
    [] t = "analyzePullRequest" -> <<"getPullRequest">>
    [] t = "classifyIssue" -> <<"getIssue">>
    [] OTHER -> <<t>>

\* the text a tool puts before the adapter's message
FailurePrefix(t) ==
  CASE t = "getRepository" -> "Failed to fetch repository: "
    [] t = "searchRepositories" -> "Failed to search repositories: "
    [] t = "getOrganizationRepositories" -> "Failed to fetch organization repositories: "
    [] t = "getUserRepositories" -> "Failed to fetch user repositories: "
    [] t = "getRepositoryBranches" -> "Failed to fetch branches: "
    [] t = "getRepositoryIssues" -> "Failed to fetch issues: "
    [] t = "getOrganizationIssues" -> "Failed to fetch organization issues: "
    [] t = "getRepositoryPRs" -> "Failed to fetch pull requests: "
    [] t = "getRepositoryCommits" -> "Failed to fetch commits: "
    [] t = "starRepository" -> "Failed to star repository: "
    [] t = "unstarRepository" -> "Failed to unstar repository: "
    [] t = "addIssueComment" -> "Failed to add comment: "
    [] t = "addIssueLabels" -> "Failed to add labels: "
    [] t = "analyzeRepository" -> "Failed to analyze repository: "
    [] t = "analyzePullRequest" -> "Failed to analyze PR: "
    [] t = "classifyIssue" -> "Failed to classify issue: "
    [] t = "generateReleaseNotes" -> "Failed to generate release notes: "
    [] t = "summarizeRepository" -> "Error summarizing repository: "
    [] t = "summarizePullRequest" -> "Error summarizing PR: "
    [] t = "summarizeIssue" -> "Error summarizing issue: "
    [] OTHER -> ""        \* testGitHubAPI: error.message as it is

\* What the fetch of a tool's read settles with: no response, a 404, or a
\* 200 with a body of the schema's shape (no item is a pull request, so
\* getRepositoryIssues does not ask again).
GoodItem == [pull_request |-> FALSE, shape_ok |-> TRUE]
ToolResponses(o) ==
  {NoResponse, [kind |-> "http", status |-> 404, json |-> TRUE, body |-> <<>>]}
  \cup {[kind |-> "http", status |-> 200, json |-> TRUE, body |-> b] :
          b \in IF o \in ListOps THEN {<<>>, <<GoodItem>>}
                ELSE IF o \in RecordOps THEN {<<GoodItem>>}
                ELSE {<<>>}}
  \* 204 No Content, the answer to PUT and DELETE /user/starred/owner/repo
  \cup (IF o \in VoidOps THEN {[kind |-> "http", status |-> 204, json |-> FALSE, body |-> <<>>]}
        ELSE {})

\* how the adapter operation o ends when its fetch settles with resp
ReadOutcome(o, resp) ==
  IF o = "getRepositoryIssues" THEN SettleIssues(api, request(api, token, resp))
  ELSE Settle(o, api, request(api, token, resp))

NoResult == [kind |-> "none"]
NewRead(o, status) == [op |-> o, status |-> status, response |-> NoResult, outcome |-> NoResult]

\* a catch block that drops the adapter's message
ToolFails_withoutMessage(t, err) ==
  [kind |-> IF t \in ReturningTools THEN "return" ELSE "throw", ok |-> FALSE, data |-> <<>>,
   message |-> <<FailurePrefix(t)>>]

\* the catch block of a tool
ToolFails(t, err) ==
  IF t \in ReturningTools
  THEN [kind |-> "return", ok |-> FALSE, data |-> <<>>,
        message |-> <<FailurePrefix(t)>> \o err.message]
  ELSE [kind |-> "throw", ok |-> FALSE, data |-> <<>>,
        message |-> <<FailurePrefix(t)>> \o err.message]

\* the values in the order the reads settled
JoinedValues_bySettling(rs) ==
  LET last == CHOOSE k \in 1..Len(rs) : \A j \in 1..Len(order) : order[j] # k
      settled == order \o <<last>>
  IN [i \in 1..Len(rs) |-> rs[settled[i]].outcome.value]

\* const [repo, issues, prs, commits] = await Promise.all([...]): the values by position
JoinedValues(rs) == [i \in 1..Len(rs) |-> rs[i].outcome.value]

\* the value a tool returns from the values of its reads
ToolSucceeds(t, rs) ==
  LET v == JoinedValues(rs)
  IN IF ToolReads(t)[1] \in VoidOps      \* return { success: true, message: `Successfully ...` }
     THEN [kind |-> "return", ok |-> TRUE, message |-> <<"Successfully done">>, data |-> <<>>]
     ELSE [kind |-> "return", ok |-> TRUE, message |-> <<>>,
           data |-> IF t = "analyzeRepository"
                    THEN [repository |-> v[1], total_issues |-> Len(v[2]),
                          total_prs |-> Len(v[3]), recent_commits |-> v[4],
                          open_issues |-> v[2], recent_prs |-> v[3]]
                    ELSE v]

InitTools ==
  /\ text = <<>> /\ fallback_per_page = undefinedNumber /\ intent = Pending /\ intent3 = Pending
  /\ dispatch = NotDispatched
  /\ api \in {1, 2} /\ token = TRUE
  /\ op = "none" /\ args = <<>> /\ pc = "idle" /\ sent = <<>> /\ received = <<>>
  /\ page1 = <<>> /\ outcome = [kind |-> "none"]
  /\ ToolIdle

\* a tool is called: the reads of a Promise.all all start, a sequential tool starts its first
ToolCall(t) ==
  /\ tool = "none"
  /\ t = "getOrganizationIssues" => api = 1
  /\ tool' = t
  /\ reads' = [i \in 1..Len(ToolReads(t)) |->
                 NewRead(ToolReads(t)[i],
                         IF t \in SequentialTools /\ i > 1 THEN "idle" ELSE "pending")]
  /\ order' = <<>>
  /\ result' = NoResult
  /\ UNCHANGED <<resolverVars, adapterVars>>

\* read i settles: the first rejection ends the tool; the last fulfilment
\* ends it with its value; a sequential tool goes on to its next read
ReadSettled(i, resp) ==
  LET out == ReadOutcome(reads[i].op, resp)
      done == [reads EXCEPT ![i].status = "done", ![i].response = resp, ![i].outcome = out]
      allOk == \A k \in 1..Len(done) : done[k].status = "done" /\ done[k].outcome.kind = "return"
      goesOn == /\ tool \in SequentialTools /\ out.kind = "return" /\ i < Len(reads)
  IN /\ reads' = IF goesOn THEN [done EXCEPT ![i + 1].status = "pending"] ELSE done
     /\ order' = Append(order, i)
     /\ result' = IF result # NoResult THEN result
                  ELSE IF out.kind = "throw" THEN ToolFails(tool, out)
                  ELSE IF allOk THEN ToolSucceeds(tool, done)
                  ELSE result
     /\ UNCHANGED <<resolverVars, adapterVars, tool>>

ReadResponds ==
  \E i \in 1..Len(reads) :
    /\ reads[i].status = "pending"
    /\ \E resp \in ToolResponses(reads[i].op) \ {NoResponse} : ReadSettled(i, resp)

ReadFetchFails ==
  \E i \in 1..Len(reads) : reads[i].status = "pending" /\ ReadSettled(i, NoResponse)

NextTools ==
  \/ \E t \in Tools : ToolCall(t)
  \/ ReadResponds
  \/ ReadFetchFails

SpecTools == InitTools /\ [][NextTools]_vars

(***************************************************************************)
(* All parts together                                                      *)
(***************************************************************************)
Init == InitResolver \/ InitAdapter \/ InitTools
Next == NextResolver \/ NextAdapter \/ NextTools
Spec == Init /\ [][Next]_vars

(***************************************************************************)
(* Words of a text, for stating what a text says without the resolver's    *)
(* own patterns                                                            *)
(***************************************************************************)
\* the maximal runs of characters other than a space, in order
RECURSIVE SplitFrom(_, _, _)
SplitFrom(t, i, cur) ==
  IF i > Len(t) THEN (IF cur = <<>> THEN <<>> ELSE <<cur>>)
  ELSE IF t[i] \in SpaceCh
       THEN (IF cur = <<>> THEN <<>> ELSE <<cur>>) \o SplitFrom(t, i + 1, <<>>)
  ELSE SplitFrom(t, i + 1, Append(cur, t[i]))

WordsOf(t) == SplitFrom(toLowerCase(t), 1, <<>>)

HasWord(t, w) == LET ws == WordsOf(t) IN \E i \in 1..Len(ws) : ws[i] = w
HasAnyWord(t, ws) == LET tw == WordsOf(t) IN \E i \in 1..Len(tw) : tw[i] \in ws
HasChar(t, c) == \E i \in 1..Len(t) : t[i] = c

\* "pr", "prs", "pull request" or "pull requests" occurs as words
MentionsPrWord(t) ==
  LET ws == WordsOf(t)
  IN \/ \E i \in 1..Len(ws) : ws[i] \in {W.pr, W.prs}
     \/ \E i \in 1..(Len(ws) - 1) : ws[i] = W.pull /\ ws[i + 1] \in {W.request, W.requests}

MentionsIssueWord(t) == HasAnyWord(t, {W.issue, W.issues})

MentionsSummaryWord(t) ==
  HasAnyWord(t, {W.summarize, W.summary, W.analyze, W.overview, W.describe})

\* the owner/repo pairs of the requests, and those a text names as a word
AllPairs == RepoPairs \cup {<<W.a, W.b>>, <<W.vercel, W.examples>>}
PairsIn(t) == {p \in AllPairs : HasWord(t, p[1] \o W.slash \o p[2])}

\* a non-empty text, with no fallback page size or one in 1..100
Accepted == Len(text) >= 1 /\ fallback_per_page \in {undefinedNumber} \cup 1..100
Resolved == intent # Pending
Resolved3 == intent3 # Pending

(***************************************************************************)
(* C1  "show N issues from OWNER/REPO" resolves to list_issues for         *)
(*     OWNER/REPO with per_page = clamp(N, 1, 100).                        *)
(*     Fails: the count pattern "N issues" captures two groups and the     *)
(*     resolver reads the last one, the word, so the count is lost.        *)
(***************************************************************************)
C1_ShowIssuesGivesListIssues ==
  \A n \in CountWords, p \in RepoPairs :
    (text = ShowIssuesText(n, p[1], p[2]) /\ Accepted /\ Resolved) =>
      /\ intent.kind = "list_issues"
      /\ intent.params.owner = p[1]
      /\ intent.params.repo = p[2]
      /\ intent.params.per_page = clamp(parseInt(n), 1, 100)

(***************************************************************************)
(* C2  A text naming an owner/repo pair and the word "pr" or "pull         *)
(*     request" resolves to list_prs, whatever else it says.               *)
(*     Fails as stated (C2_PairAndPrGivesListPrs): an issue word or a      *)
(*     summarization word wins.  Amended (C2_PrLaneWithoutIssueWord): when *)
(*     the text has neither, the intent is list_prs for a pair it names.   *)
(***************************************************************************)
C2_PairAndPrGivesListPrs ==
  (Accepted /\ Resolved /\ PairsIn(text) # {} /\ MentionsPrWord(text)) =>
    intent.kind = "list_prs"

C2_PrLaneWithoutIssueWord ==
  (Accepted /\ Resolved /\ PairsIn(text) # {} /\ MentionsPrWord(text)
     /\ ~MentionsIssueWord(text) /\ ~MentionsSummaryWord(text)) =>
    /\ intent.kind = "list_prs"
    /\ <<intent.params.owner, intent.params.repo>> \in PairsIn(text)

C2_Witness ==
  /\ Resolved /\ intent.kind = "list_prs"
  /\ PairsIn(text) # {} /\ MentionsPrWord(text) /\ HasWord(text, W.commits)

(***************************************************************************)
(* C3  "X org repos", also after "Show me", resolves to list_org_repos     *)
(*     with org = X.  Fails: the owner is read after the word "org", so    *)
(*     org is "repos".                                                     *)
(***************************************************************************)
C3_OrgReposGivesThatOrg ==
  \A b \in BOOLEAN, x \in OrgNames :
    (text = OrgReposText(b, x) /\ Accepted /\ Resolved) =>
      /\ intent.kind = "list_org_repos"
      /\ intent.params.org = x

(***************************************************************************)
(* C6  For a non-empty text and a fallback page size in 1..100 (or none)   *)
(*     neither resolver throws; each returns one intent of its union; a    *)
(*     text with no repo, org or user token gives search_repos (eight      *)
(*     intents) and list_org_repos for "vercel" (three intents).           *)
(***************************************************************************)
ParamsOf8(kind) ==
  CASE kind \in {"get_repo", "summarize_repo"} -> {"owner", "repo"}
    [] kind \in {"list_issues", "list_prs"} -> {"owner", "repo", "state", "per_page"}
    [] kind = "list_commits" -> {"owner", "repo", "sha", "per_page"}
    [] kind = "list_org_repos" -> {"org", "per_page"}
    [] kind = "list_user_repos" -> {"username", "per_page"}
    [] kind = "search_repos" -> {"q", "per_page"}
    [] OTHER -> {"no such intent"}

IsIntent8(i) == DOMAIN i = {"kind", "params"} /\ DOMAIN i.params = ParamsOf8(i.kind)
IsIntent3(i) ==
  /\ i.kind \in {"list_org_repos", "list_issues", "list_prs"}
  /\ IsIntent8(i)

\* no owner/repo pair, no word that introduces an organisation or a user
NoTargetToken(t) ==
  /\ ~HasChar(t, "/")
  /\ ~HasAnyWord(t, {W.org, W.organization, W.account, W.user, W.owner, W.from, W.tamb})

claimCountTop ==
  [ci |-> TRUE, caps |-> <<4>>,
   parts |-> <<Wb, Words(<<W.top, W.first, W.latest, W.recent>>), Plus(SpaceCh),
               Rep(DigitCh, 1, 3), Wb>>]
claimCountLane ==
  [ci |-> TRUE, caps |-> <<2>>,
   parts |-> <<Wb, Rep(DigitCh, 1, 3), Plus(SpaceCh),
               Words(<<W.repos, W.issues, W.prs, W.pull_requests>>), Wb>>]
claimCountBare == [ci |-> FALSE, caps |-> <<2>>, parts |-> <<Wb, Rep(DigitCh, 1, 3), Wb>>]

ClaimedCount(t, fallback) ==
  LET m == OrElse(Match(claimCountTop, t),
                  OrElse(Match(claimCountLane, t), Match(claimCountBare, t)))
  IN IF m.found THEN clamp(parseInt(m.g[1]), 1, 100) ELSE fallback

KindsWithPerPage ==
  {"list_issues", "list_prs", "list_commits", "list_org_repos", "list_user_repos", "search_repos"}

C7_CountFromFirstPattern ==
  (Accepted /\ Resolved /\ intent.kind \in KindsWithPerPage) =>
    intent.params.per_page = ClaimedCount(trim(text), FallbackOr(fallback_per_page, 10))

(***************************************************************************)
(* C4  getRepositoryIssues never returns an item whose raw payload has a   *)
(*     pull_request field, from the first page or from the retry page.     *)
(***************************************************************************)
C4_NoPullRequestReturned ==
  (op = "getRepositoryIssues" /\ pc = "done" /\ outcome.kind = "return") =>
    \A i \in 1..Len(outcome.value) : ~outcome.value[i].raw.pull_request

C4_Witness ==
  /\ op = "getRepositoryIssues" /\ pc = "done" /\ outcome.kind = "return"
  /\ Len(received) = 2 /\ received[2].kind = "http"
  /\ \E i \in 1..Len(received[2].body) : received[2].body[i].pull_request
  /\ Len(outcome.value) >= 1

(***************************************************************************)
(* C5  getRepositoryIssues sends a second request exactly when the first   *)
(*     response is a non-empty page of pull requests only, after that      *)
(*     response, at most once; otherwise it sends one request.  Fails in   *)
(*     version 2 of the adapter, which never asks again.                   *)
(***************************************************************************)
AllPullRequests(resp) ==
  /\ resp.kind = "http" /\ ResponseOk(resp) /\ resp.json
  /\ Len(resp.body) > 0
  /\ \A i \in 1..Len(resp.body) : resp.body[i].pull_request

C5_RetryExactlyOnAllPullRequests ==
  op = "getRepositoryIssues" =>
    /\ Len(sent) <= 2
    /\ Len(sent) = 2 => (Len(received) >= 1 /\ AllPullRequests(received[1]))
    /\ (Len(received) >= 1 /\ AllPullRequests(received[1])) => Len(sent) = 2

(***************************************************************************)
(* C8  A 403 answer to any request of an operation makes the operation     *)
(*     fail with a message that holds a permission or token hint.  Stated  *)
(*     of version 1, whose request() adds the hints.  Fails: a 403 answer  *)
(*     to the retry request of getRepositoryIssues is caught and the       *)
(*     operation returns the empty list.                                   *)
(***************************************************************************)
PermissionHints == {TokenHint403, NoTokenHint403, IssuesDenied, SearchDenied}

Answered(status) ==
  \E i \in 1..Len(received) : received[i].kind = "http" /\ received[i].status = status

C8_ForbiddenFailsWithHint ==
  (api = 1 /\ pc = "done" /\ Answered(403)) =>
    /\ outcome.kind = "throw"
    /\ \E k \in 1..Len(outcome.message) : outcome.message[k] \in PermissionHints

(***************************************************************************)
(* C9  A 404 answer to any request of an operation makes the operation     *)
(*     fail with status 404 and the not-found hint.  Stated of version 1.  *)
(*     Fails: a 404 answer to the retry request of getRepositoryIssues is  *)
(*     caught (the operation returns the empty list), and                  *)
(*     getRepositoryReadme returns null.                                   *)
(***************************************************************************)
C9_NotFoundFailsWithHint ==
  (api = 1 /\ pc = "done" /\ Answered(404)) =>
    /\ outcome.kind = "throw"
    /\ outcome.status = 404
    /\ \E k \in 1..Len(outcome.message) : outcome.message[k] = Hint404

(***************************************************************************)
(* C10 Every record an operation with a response schema returns has been   *)
(*     parsed with that schema and has its shape.                          *)
(***************************************************************************)
C10_ReturnedRecordsAreValidated ==
  (op \in ParseOps /\ pc = "done" /\ outcome.kind = "return") =>
    \A i \in 1..Len(outcome.value) :
      /\ outcome.value[i].validated = SchemaOf(op)
      /\ outcome.value[i].raw.shape_ok

C10_Witness ==
  /\ op = "getRepositoryCommits" /\ pc = "done" /\ outcome.kind = "return"
  /\ Len(outcome.value) = MaxPage

(***************************************************************************)
(* C11 request() throws an error with the numeric status exactly when a    *)
(*     response with a non-2xx status was received, and a "Network error"  *)
(*     without a status exactly when no response was received; a 2xx       *)
(*     response gives neither.  Fails: a 2xx response whose body is not    *)
(*     JSON (an empty 204, a diff) makes response.json() throw inside the  *)
(*     try block, and the catch wraps that as a "Network error".           *)
(***************************************************************************)
NetworkErrorMessages ==
  {"Network error: fetch failed", "Network error: Unexpected end of JSON input"}

IsNetworkError(r) ==
  /\ ~r.ok /\ r.err.name = "GitHubAPIError" /\ r.err.status = 0
  /\ r.err.message[1] \in NetworkErrorMessages

IsStatusError(r) == ~r.ok /\ r.err.name = "GitHubAPIError" /\ r.err.status # 0

C11_NetworkErrorOnlyWithoutResponse ==
  \A i \in 1..Len(received) :
    LET resp == received[i]
        r == request(api, token, resp)
    IN /\ IsStatusError(r) <=> (resp.kind = "http" /\ ~ResponseOk(resp))
       /\ IsStatusError(r) => r.err.status = resp.status
       /\ IsNetworkError(r) <=> resp.kind = "failed"
       /\ (resp.kind = "http" /\ ResponseOk(resp)) => r.ok

(***************************************************************************)
(* C12 When a response body received by an operation with a response       *)
(*     schema does not match the schema, the operation fails with a parse  *)
(*     error; the mismatch is never swallowed, also on the retry path of   *)
(*     getRepositoryIssues.  (An item getRepositoryIssues drops as a pull  *)
(*     request is not counted as a mismatch.)  Fails: the parse error of   *)
(*     the retry page is caught and the operation returns the empty list.  *)
(***************************************************************************)
Mismatch(o, resp) ==
  /\ resp.kind = "http" /\ ResponseOk(resp) /\ resp.json
  /\ \E i \in 1..Len(resp.body) :
       /\ ~resp.body[i].shape_ok
       /\ o = "getRepositoryIssues" => ~resp.body[i].pull_request

C12_ShapeMismatchFails ==
  (op \in ParseOps /\ pc = "done" /\ \E i \in 1..Len(received) : Mismatch(op, received[i])) =>
    /\ outcome.kind = "throw"
    /\ outcome.name = "ZodError"

(***************************************************************************)
(* C13 analyzeRepository starts its four reads without waiting for one     *)
(*     another and returns only after all four have completed; when a read *)
(*     fails the tool fails, with no partial result; the value returned is *)
(*     made of the four values by position, whatever order they came in.   *)
(***************************************************************************)
ReadFailed(i) == reads[i].status = "done" /\ reads[i].outcome.kind = "throw"
ReadOk(i) == reads[i].status = "done" /\ reads[i].outcome.kind = "return"

C13_AnalyzeJoinsAllReads ==
  tool = "analyzeRepository" =>
    /\ Len(reads) = 4
    /\ \A i \in 1..4 : reads[i].status # "idle"
    /\ result.kind = "return" =>
         /\ \A i \in 1..4 : ReadOk(i)
         /\ result.ok
         /\ result.data.repository = reads[1].outcome.value
         /\ result.data.open_issues = reads[2].outcome.value
         /\ result.data.total_issues = Len(reads[2].outcome.value)
         /\ result.data.recent_prs = reads[3].outcome.value
         /\ result.data.total_prs = Len(reads[3].outcome.value)
         /\ result.data.recent_commits = reads[4].outcome.value
    /\ (\E i \in 1..4 : ReadFailed(i)) =>
         (result.kind = "throw" /\ result.data = <<>>)
    /\ (\A i \in 1..4 : ReadOk(i)) => result.kind = "return"

\* the reads came back last to first, each with another value
C13_Witness ==
  /\ tool = "analyzeRepository" /\ result.kind = "return"
  /\ order = <<4, 3, 2, 1>>
  /\ Len(reads[2].outcome.value) = 1
  /\ Len(reads[3].outcome.value) = 0
  /\ Len(reads[4].outcome.value) = 1

(***************************************************************************)
(* C14 Every tool returns its adapter operation's result or throws an      *)
(*     Error whose message contains the adapter error's message; no tool   *)
(*     returns normally after its adapter operation failed.                *)
(*     Fails as stated (C14_ToolThrowsAfterFailure): testGitHubAPI and the *)
(*     summarize tools catch the error and return an object.  Amended      *)
(*     (C14_ToolSurfacesFailure): after a failed operation every tool ends *)
(*     with the adapter error's message in its text, the wrappers by       *)
(*     throwing, testGitHubAPI and the summarize tools by returning an     *)
(*     object that is not a result; a result is returned only when every   *)
(*     operation succeeded.                                                *)
(***************************************************************************)
\* the outcome of the read that failed first
FirstFailure ==
  LET j == CHOOSE k \in 1..Len(order) :
             /\ ReadFailed(order[k])
             /\ \A l \in 1..(k - 1) : ~ReadFailed(order[l])
  IN reads[order[j]].outcome

ContainsText(message, part) ==
  \E k \in 0..(Len(message) - Len(part)) : SubSeq(message, k + 1, k + Len(part)) = part

SomeReadFailed == \E i \in 1..Len(reads) : ReadFailed(i)

C14_ToolThrowsAfterFailure ==
  (tool # "none" /\ SomeReadFailed) =>
    /\ result.kind = "throw"
    /\ ContainsText(result.message, FirstFailure.message)

C14_ToolSurfacesFailure ==
  /\ (tool # "none" /\ SomeReadFailed) =>
       /\ result.kind = IF tool \in ReturningTools THEN "return" ELSE "throw"
       /\ ~result.ok
       /\ result.data = <<>>
       /\ ContainsText(result.message, FirstFailure.message)
  /\ (tool # "none" /\ result.kind = "return" /\ result.ok) =>
       /\ \A i \in 1..Len(reads) : ReadOk(i)
       /\ (tool \in WrapperTools /\ reads[1].op \notin VoidOps) =>
            result.data = <<reads[1].outcome.value>>

C14_Witness ==
  /\ tool = "getRepositoryIssues" /\ ReadFailed(1)
  /\ reads[1].outcome.status = 404
  /\ result.kind = "throw"

(***************************************************************************)
(* C15 A text that holds an owner/repo pair and the word "issue(s)",       *)
(*     whatever the wording or the preposition ("Can you show me 4 open    *)
(*     issues for the vercel/examples repo?"), resolves to list_issues for *)
(*     that pair, with the state word and the count of the text; never to  *)
(*     another kind.  Fails: the three-intent resolver reads a pair only   *)
(*     after "from"; the eight-intent resolver gives summarize_repo when   *)
(*     a summarization word is there, and loses the count of "N issues".   *)
(***************************************************************************)
StateWords ==
  {W.open, W.opened, W.active, W.closed, W.close, W.merged, W.resolved, W.all, W.any}

\* the state the first state word of the text stands for
ClaimedState(t) ==
  LET ws == WordsOf(t)
      at == {i \in 1..Len(ws) : ws[i] \in StateWords}
  IN IF at = {} THEN "undefined"
     ELSE LET w == ws[CHOOSE i \in at : \A j \in at : i <= j]
          IN IF w \in {W.open, W.opened, W.active} THEN "open"
             ELSE IF w \in {W.closed, W.close, W.merged, W.resolved} THEN "closed"
             ELSE "all"

C15_PairAndIssueWordGivesListIssues ==
  (Accepted /\ PairsIn(text) # {} /\ MentionsIssueWord(text)) =>
    /\ Resolved =>
         /\ intent.kind = "list_issues"
         /\ <<intent.params.owner, intent.params.repo>> \in PairsIn(text)
         /\ intent.params.state = ClaimedState(text)
         /\ intent.params.per_page = ClaimedCount(trim(text), FallbackOr(fallback_per_page, 10))
    /\ Resolved3 =>
         /\ intent3.kind = "list_issues"
         /\ <<intent3.params.owner, intent3.params.repo>> \in PairsIn(text)

(***************************************************************************)
(* C16 In the three-intent resolver each request form resolves to its      *)
(*     operation for every count N in 1..100 and every name: "show N repos *)
(*     from ORG" gives list_org_repos for ORG, "show N issues from         *)
(*     OWNER/REPO" gives list_issues and "show N pull requests from        *)
(*     OWNER/REPO" gives list_prs for OWNER and REPO, each with            *)
(*     per_page = N.  Fails for N = 100: the count pattern reads at most   *)
(*     two digits and the default 4 is taken.                              *)
(***************************************************************************)
CountsInRange == {n \in CountWords : parseInt(n) >= 1 /\ parseInt(n) <= 100}

C16_ThreeIntentForms ==
  (Accepted /\ Resolved3) =>
    \A n \in CountsInRange :
      /\ \A x \in OrgNames :
           text = ShowReposText(n, x) =>
             /\ intent3.kind = "list_org_repos"
             /\ intent3.params.org = x
             /\ intent3.params.per_page = parseInt(n)
      /\ \A p \in RepoPairs :
           /\ text = ShowIssuesText(n, p[1], p[2]) =>
                /\ intent3.kind = "list_issues"
                /\ intent3.params.owner = p[1] /\ intent3.params.repo = p[2]
                /\ intent3.params.per_page = parseInt(n)
           /\ text = ShowPrsText(n, p[1], p[2]) =>
                /\ intent3.kind = "list_prs"
                /\ intent3.params.owner = p[1] /\ intent3.params.repo = p[2]
                /\ intent3.params.per_page = parseInt(n)

(***************************************************************************)
(* C17 "Get X repositories", X an account named without an org or user     *)
(*     keyword ("Get vercel repositories"), resolves to list_user_repos    *)
(*     with username = X.  Fails: without a keyword no owner is read and   *)
(*     the resolver returns search_repos with the whole text as query.     *)
(***************************************************************************)
C17_GetRepositoriesListsUserRepos ==
  \A x \in OrgNames :
    (text = GetRepositoriesText(x) /\ Accepted /\ Resolved) =>
      /\ intent.kind = "list_user_repos"
      /\ intent.params.username = x

(***************************************************************************)
(* C18 For a text with an owner/repo pair the kind follows a fixed         *)
(*     precedence, first match wins: summarize_repo for a summarization    *)
(*     word (summarize, analyze, overview, describe), else list_issues for *)
(*     "issue(s)", else list_prs for "pr(s)" or "pull request(s)", else    *)
(*     list_commits for "commit(s)", else get_repo; never list_org_repos,  *)
(*     list_user_repos or search_repos.                                    *)
(*     Fails as stated (C18_PrecedenceWithFourWords): "summary" is a       *)
(*     summarization word of the code too.  Amended (C18_PairPrecedence):  *)
(*     the same precedence with the five words summarize, summary,         *)
(*     analyze, overview, describe.                                        *)
(***************************************************************************)
ExpectedKind(t, summaryWords) ==
  IF HasAnyWord(t, summaryWords) THEN "summarize_repo"
  ELSE IF MentionsIssueWord(t) THEN "list_issues"
  ELSE IF MentionsPrWord(t) THEN "list_prs"
  ELSE IF HasAnyWord(t, {W.commit, W.commits}) THEN "list_commits"
  ELSE "get_repo"

C18_PrecedenceWithFourWords ==
  (Accepted /\ Resolved /\ PairsIn(text) # {}) =>
    intent.kind = ExpectedKind(text, {W.summarize, W.analyze, W.overview, W.describe})

C18_PairPrecedence ==
  (Accepted /\ Resolved /\ PairsIn(text) # {}) =>
    /\ intent.kind =
         ExpectedKind(text, {W.summarize, W.summary, W.analyze, W.overview, W.describe})
    /\ <<intent.params.owner, intent.params.repo>> \in PairsIn(text)

C18_Witness ==
  /\ Resolved /\ intent.kind = "summarize_repo"
  /\ PairsIn(text) # {} /\ MentionsIssueWord(text) /\ HasWord(text, W.summary)

(***************************************************************************)
(* C19 A list_issues or list_prs intent carries the normalisation of the   *)
(*     state word of the text: open, opened, active give "open"; closed,   *)
(*     close, merged, resolved give "closed"; all, any give "all"; no      *)
(*     state word gives undefined.                                         *)
(***************************************************************************)
C19_StateIsNormalisedStateWord ==
  (Accepted /\ Resolved /\ intent.kind \in {"list_issues", "list_prs"}) =>
    intent.params.state = ClaimedState(text)

(***************************************************************************)
(* C20 Every intent of the eight-intent resolver that carries per_page     *)
(*     (list_issues, list_prs, list_commits, list_org_repos,               *)
(*     list_user_repos, search_repos) carries an integer from 1 to 100,    *)
(*     for any text and any accepted fallback page size.                   *)
(***************************************************************************)
C20_PerPageInRange ==
  (Accepted /\ Resolved /\ intent.kind \in KindsWithPerPage) =>
    intent.params.per_page \in 1..100

\* a count above the range and a count below it, both brought into it
C20_Witness ==
  /\ Accepted /\ Resolved /\ intent.kind \in KindsWithPerPage
  /\ HasWord(text, W.top)
  /\ \/ HasWord(text, W.n999) /\ intent.params.per_page = 100
     \/ HasWord(text, W.n0) /\ intent.params.per_page = 1

(***************************************************************************)
(* C21 For every intent kind the resolver can return, the dispatcher of    *)
(*     the resolveGitHubIntent tool invokes the matching adapter operation *)
(*     with the intent's parameters and never rejects the intent as an     *)
(*     unknown kind.                                                       *)
(*     Fails: the switch has no case for summarize_repo.                   *)
(***************************************************************************)
ToolCalled == dispatch # NotDispatched

ClaimedOperation(kind) ==
  CASE kind = "list_org_repos" -> "getOrganizationRepositories"
    [] kind = "list_user_repos" -> "getUserRepositories"
    [] kind = "search_repos" -> "searchRepositories"
    [] kind = "get_repo" -> "getRepository"
    [] kind = "list_issues" -> "getRepositoryIssues"
    [] kind = "list_prs" -> "getRepositoryPRs"
    [] kind = "list_commits" -> "getRepositoryCommits"
    [] kind = "summarize_repo" -> "summarizeRepository"

\* every parameter of the intent is passed on as it is (a state left undefined may be filled in)
PassesParams(i, p) ==
  \A k \in DOMAIN i.params :
    /\ k \in DOMAIN p
    /\ IF k = "state" THEN i.params.state = "undefined" \/ p.state = i.params.state
       ELSE p[k] = i.params[k]

C21_DispatcherInvokesMatchingOperation ==
  (Accepted /\ ToolCalled) =>
    /\ dispatch.kind = "invoke"
    /\ dispatch.op = ClaimedOperation(dispatch.intent.kind)
    /\ PassesParams(dispatch.intent, dispatch.params)

(***************************************************************************)
(* C22 When the first page is non-empty and holds pull requests only, the  *)
(*     one retry request of getRepositoryIssues asks for a larger page     *)
(*     size than the first request, for the same repository and filters.   *)
(*     Fails: the retry repeats per_page and only adds filter=issues.      *)
(***************************************************************************)
RetrySent == op = "getRepositoryIssues" /\ Len(sent) = 2

C22_RetryAsksForLargerPage ==
  RetrySent =>
    /\ sent[2].endpoint = sent[1].endpoint
    /\ sent[2].per_page > sent[1].per_page

(***************************************************************************)
(* C23 getRepositoryIssues requests more items than the caller asked for,  *)
(*     filters out pull requests and caps the result: it never returns     *)
(*     more than per_page issues, however many items the endpoint returns. *)
(*     Fails: it requests per_page items and returns whatever is left      *)
(*     after the filter.                                                   *)
(***************************************************************************)
IssuesReturned == op = "getRepositoryIssues" /\ pc = "done" /\ outcome.kind = "return"

C23_NeverMoreThanPerPage ==
  IssuesReturned => Len(outcome.value) <= args.per_page

(***************************************************************************)
(* C24 A text whose only slashes are inside a URL (https://example.com/    *)
(*     docs) or a date (10/12/2024) yields no owner/repo pair and no       *)
(*     repo-scoped intent (summarize_repo, list_issues, list_prs,          *)
(*     list_commits, get_repo).                                            *)
(*     Fails: the slash pattern matches "com/docs" and "10/12".            *)
(***************************************************************************)
RepoScopedKinds == {"summarize_repo", "list_issues", "list_prs", "list_commits", "get_repo"}

\* every word with a slash is the URL or the date
SlashesOnlyInUrlOrDate(t) ==
  /\ HasChar(t, "/")
  /\ \A i \in 1..Len(WordsOf(t)) :
       HasChar(WordsOf(t)[i], "/") => WordsOf(t)[i] \in {W.url_docs, W.date_10_12_2024}

C24_NoPairFromUrlOrDate ==
  (Accepted /\ Resolved /\ SlashesOnlyInUrlOrDate(text)) => intent.kind \notin RepoScopedKinds

(***************************************************************************)
(* C25 The pull-request lane needs "pr", "prs", "pull request" or "pull    *)
(*     requests" as a whole word: a text with an owner/repo pair that has  *)
(*     "pr" only inside other words (project, express, improve) and no     *)
(*     issue or commit word never resolves to list_prs.                    *)
(*     Fails in the three-intent resolver, which tests includes("pr").     *)
(***************************************************************************)
PrOnlyInsideWords(t) ==
  /\ ~MentionsPrWord(t)
  /\ \E i \in 1..Len(WordsOf(t)) :
       ~HasChar(WordsOf(t)[i], "/") /\ ContainsText(toLowerCase(WordsOf(t)[i]), W.pr)

C25_Case ==
  /\ Accepted /\ PairsIn(text) # {} /\ PrOnlyInsideWords(text)
  /\ ~MentionsIssueWord(text) /\ ~HasAnyWord(text, {W.commit, W.commits})

C25_PrLaneIsWholeWord ==
  C25_Case => /\ Resolved => intent.kind # "list_prs"
              /\ Resolved3 => intent3.kind # "list_prs"

(***************************************************************************)
(* C26 For a text without an owner/repo pair that names an owner X ("from  *)
(*     X org", "in X organization", "user X", "owner X"): a repo-listing   *)
(*     phrase with organisation wording resolves to list_org_repos with    *)
(*     org = X; one that indicates a user resolves to list_user_repos with *)
(*     username = X; and list_user_repos is never returned for a text that *)
(*     contains "org" or "organization".                                   *)
(*     Fails: only the word "org" is excluded, not "organization".         *)
(***************************************************************************)
HasPhrase(t, ws) ==
  \E i \in 1..(Len(WordsOf(t)) - Len(ws) + 1) : SubSeq(WordsOf(t), i, i + Len(ws) - 1) = ws

RepoListing(t) ==
  /\ ~HasChar(t, "/")
  /\ HasAnyWord(t, {W.list, W.show, W.get})
  /\ HasAnyWord(t, {W.repos, W.repo, W.repositories})

MentionsOrganisation(t) == HasAnyWord(t, {W.org, W.organization})

C26_OrgAndUserListing ==
  (Accepted /\ Resolved /\ RepoListing(text)) =>
    /\ \A x \in OrgNames :
         /\ (HasPhrase(text, <<W.from, x, W.org>>) \/ HasPhrase(text, <<W.in, x, W.organization>>))
              => (intent.kind = "list_org_repos" /\ intent.params.org = x)
         /\ ((HasPhrase(text, <<W.user, x>>) \/ HasPhrase(text, <<W.owner, x>>))
               /\ ~MentionsOrganisation(text))
              => (intent.kind = "list_user_repos" /\ intent.params.username = x)
    /\ MentionsOrganisation(text) => intent.kind # "list_user_repos"

(***************************************************************************)
(* C27 The query q of a search_repos intent is "user:<owner>" for an       *)
(*     extracted owner, "language:<lang>" for an extracted language and    *)
(*     "topic:<topic>" for an extracted topic, followed by the text as     *)
(*     keywords; q is never empty, also for a whitespace-only input.       *)
(*     Fails as stated (C27_QueryWithUserQualifier): the owner is given as *)
(*     "org:<owner> user:<owner>".  Amended (C27_SearchQuery): the same    *)
(*     with that pair of qualifiers, the keywords being the whole trimmed  *)
(*     text, and q = "stars:>0" when nothing else is left.                 *)
(***************************************************************************)
\* the parts that are present, joined by single spaces
QueryOf(ownerPart, t) ==
  LET f == extractFilters(t)
      parts == <<ownerPart,
                 IF f.language # undefined THEN W.language_colon \o f.language ELSE <<>>,
                 IF f.topic # undefined THEN W.topic_colon \o f.topic ELSE <<>>,
                 t>>
  IN Join(SelectSeq(parts, LAMBDA p : p # <<>>))

UserQualifier(t) ==
  IF extractOwner(t) # undefined THEN <<"u", "s", "e", "r", ":">> \o extractOwner(t) ELSE <<>>

OrgAndUserQualifier(t) ==
  IF extractOwner(t) # undefined
    THEN W.org_colon \o extractOwner(t) \o W.sp_user_colon \o extractOwner(t)
    ELSE <<>>

IsSearch == Accepted /\ Resolved /\ intent.kind = "search_repos"

C27_QueryWithUserQualifier ==
  IsSearch => /\ intent.params.q # <<>>
              /\ trim(text) # <<>> => intent.params.q = QueryOf(UserQualifier(trim(text)), trim(text))

C27_SearchQuery ==
  IsSearch =>
    /\ intent.params.q # <<>>
    /\ trim(text) # <<>> =>
         intent.params.q = QueryOf(OrgAndUserQualifier(trim(text)), trim(text))
    /\ trim(text) = <<>> => intent.params.q = W.stars_gt_0

\* an owner, a language and a topic in one query, and the query of a whitespace-only input
C27_Witness ==
  /\ IsSearch
  /\ \/ /\ extractOwner(trim(text)) # undefined
        /\ extractFilters(trim(text)).language # undefined
        /\ extractFilters(trim(text)).topic # undefined
     \/ text = W.space

(***************************************************************************)
(* C28 starRepository and unstarRepository report success whenever GitHub  *)
(*     answers with a 2xx status, a 204 with an empty body included, and   *)
(*     throw exactly when the status is not 2xx or there is no response.   *)
(*     Fails: request() parses every 2xx body as JSON, so the empty body   *)
(*     of a 204 makes it throw "Network error".                            *)
(***************************************************************************)
StarTools == {"starRepository", "unstarRepository"}

C28_StarSucceedsOnEvery2xx ==
  (tool \in StarTools /\ reads[1].status = "done") =>
    IF reads[1].response.kind = "http" /\ ResponseOk(reads[1].response)
    THEN result.kind = "return" /\ result.ok
    ELSE result.kind = "throw"

(***************************************************************************)
(* C29 If the retry request of getRepositoryIssues fails (any HTTP error   *)
(*     status, 403 included, a network failure, or an item that does not   *)
(*     match the issue schema), getRepositoryIssues does not throw: it     *)
(*     returns the empty list left by the first pass, and nothing else of  *)
(*     the outcome changes.                                                *)
(***************************************************************************)
RetryFailed ==
  /\ op = "getRepositoryIssues" /\ pc = "done" /\ Len(received) = 2
  /\ \/ received[2].kind = "failed"
     \/ ~ResponseOk(received[2])
     \/ ~received[2].json
     \/ Mismatch(op, received[2])

C29_RetryFailureIsSwallowed ==
  RetryFailed =>
    /\ outcome = Returns("list", <<>>)
    /\ page1 = <<>>
    /\ Len(sent) = 2

\* the retry was answered 403, and the call returned all the same
C29_Witness ==
  /\ RetryFailed /\ received[2].kind = "http" /\ received[2].status = 403
  /\ outcome.kind = "return"

(***************************************************************************)
(* C30 resolveGitHubIntent called with an empty input, or with a fallback  *)
(*     page size that is not an integer from 1 to 100, throws a validation *)
(*     error and returns no intent; the resolveGitHubIntent tool passes an *)
(*     empty input on unchanged, so the tool call fails before any adapter *)
(*     operation is invoked.                                               *)
(***************************************************************************)
C30_InvalidInputIsRejected ==
  /\ (Resolved /\ ~Accepted) => intent = ZodError
  /\ (ToolCalled /\ ~Accepted) =>
       /\ dispatch.kind = "throw"
       /\ dispatch.error = ZodError
       /\ "op" \notin DOMAIN dispatch

\* the empty input, given to the resolver and to the tool
C30_Witness ==
  /\ text = <<>> /\ Resolved /\ ToolCalled
  /\ intent = ZodError /\ dispatch.kind = "throw"

====
